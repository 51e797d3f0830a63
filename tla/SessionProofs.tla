---------------------------- MODULE SessionProofs ----------------------------
(* Theorems about SessionHistory, for any number of clients, accounts and    *)
(* handlers and any lives of the tokens.                                     *)
EXTENDS SessionHistory, FiniteSetTheorems, TLAPS

-----------------------------------------------------------------------------
(* Type correctness *)

\* The steps a request can be at, and what it has then.
LEMMA RequestFields ==
    /\ Idle \in Requests /\ Idle.pc = "idle" /\ Idle.pair = None
    /\ \A q \in Requests :
        /\ q.pc \in {"idle", "rotate", "store"}
        /\ q.pc = "idle" => q = Idle
        /\ q.pc # "idle" => q.pair \in Pair
        /\ q.pc = "rotate" => q.client \in Clients /\ q.spent \in Pair
BY DEF Requests, Idle, Request

LEMMA NewRequests ==
    /\ \A c \in Clients, t, s \in Pair : Request("rotate", c, t, s) \in Requests
    /\ \A t \in Pair : Request("store", None, t, None) \in Requests
    /\ \A pc, c, t, s : /\ Request(pc, c, t, s).pc = pc
                        /\ Request(pc, c, t, s).client = c
                        /\ Request(pc, c, t, s).pair = t
                        /\ Request(pc, c, t, s).spent = s
BY DEF Requests, Request

\* A request changes the slot it is in.
LEMMA Becoming ==
    ASSUME TypeOK, NEW h \in Handlers, NEW r \in Requests, Become(h, r)
    PROVE  /\ req' \in [Handlers -> Requests]
           /\ req'[h] = r
           /\ \A g \in Handlers : g # h => req'[g] = req[g]
BY DEF TypeOK, Become

\* The pair about to be handed out was signed for its client.
SignedFor(h) ==
    At(h, "rotate") =>
        req[h].pair.account = User[req[h].client] /\ req[h].pair.at <= now

\* Inductive: the declared types, and the pairs about to be handed out.
Typed == TypeOK /\ \A h \in Handlers : SignedFor(h)

LEMMA Signing ==
    ASSUME TypeOK, NEW c \in Clients
    PROVE  Sign(c) \in Pair /\ Sign(c).account = User[c] /\ Sign(c).at = now
BY SessionsAssumption DEF Sign, Pair, TypeOK

\* What is signed is signed now, and what is passed on was there before.
LEMMA NoneEarlyStep == Typed /\ [Next]_vars => NoneEarly'
<1> SUFFICES ASSUME Typed, [Next]_vars, NEW t \in Pair, t.at > now'
             PROVE  /\ stored'[t] = 0 /\ blocked'[t] = 0
                    /\ \A h \in Handlers : t \notin {req'[h].pair, req'[h].spent}
  BY DEF NoneEarly
<1> USE SessionsAssumption, RequestFields
<1>1. /\ TypeOK /\ now \in Nat /\ t.at \in Nat /\ t # None /\ now <= now'
  BY DEF Typed, TypeOK, Times, Pair, Next, Serve, Login, Refresh, Store, Rotate,
     Logout, Tick, Crash, vars
<1>2. /\ stored[t] = 0 /\ blocked[t] = 0
      /\ \A h \in Handlers : t # req[h].pair /\ t # req[h].spent
      /\ \A c \in Clients : t # hold[c] /\ t # Sign(c)
  <2>1. now' \in Nat
    BY <1>1 DEF Next, Serve, Login, Refresh, Store, Rotate, Logout, Tick, Crash, vars
  <2>2. t.at > now
    BY <1>1, <2>1
  <2>3. \A c \in Clients : Sign(c).at = now
    BY DEF Sign
  <2>4. \A c \in Clients : hold[c] # None => hold[c].at <= now
    BY <1>1 DEF TypeOK
  <2> QED
    BY <1>1, <2>2, <2>3, <2>4 DEF TypeOK, NoneEarly
<1>3. ASSUME NEW h \in Handlers, NEW r \in Requests, Become(h, r),
             t # r.pair, t # r.spent
      PROVE  \A g \in Handlers : t \notin {req'[g].pair, req'[g].spent}
  BY <1>1, <1>2, <1>3, Becoming
<1>4. Idle \in Requests /\ Idle.pair = None /\ Idle.spent = None
  BY DEF Idle, Request
<1>5. ASSUME NEW h \in Handlers, NEW c \in Clients, Login(h, c) \/ Refresh(h, c)
      PROVE  \A g \in Handlers : t \notin {req'[g].pair, req'[g].spent}
  <2>1. Sign(c) \in Pair /\ (hold[c] # None => hold[c] \in Pair)
    BY <1>1, Signing DEF TypeOK
  <2>2. CASE Login(h, c)
    BY <1>1, <1>2, <1>3, <2>1, <2>2, NewRequests DEF Login, Begin
  <2>3. CASE Refresh(h, c)
    BY <1>1, <1>2, <1>3, <2>1, <2>3, NewRequests DEF Refresh, Begin
  <2> QED
    BY <1>5, <2>2, <2>3
<1>6. ASSUME NEW h \in Handlers, Store(h) \/ Rotate(h)
      PROVE  /\ stored'[t] = 0
             /\ \A g \in Handlers : t \notin {req'[g].pair, req'[g].spent}
  <2>1. req[h] \in Requests /\ stored \in [Pair -> Nat]
    BY <1>1 DEF TypeOK
  <2>2. CASE Store(h)
    BY <1>1, <1>2, <1>3, <1>4, <2>1, <2>2 DEF Store
  <2>3. CASE Rotate(h)
    <3>1. req[h].pair \in Pair
      BY <2>1, <2>3 DEF Rotate, At
    <3>2. stored'[t] = 0
      BY <1>2, <2>1, <2>3 DEF Rotate, DeleteOne
    <3> QED
      BY <1>1, <1>2, <1>3, <2>3, <3>1, <3>2, NewRequests DEF Rotate
  <2> QED
    BY <1>6, <2>2, <2>3
<1>7. ASSUME NEW c \in Clients, Logout(c) PROVE blocked'[t] = 0
  BY <1>1, <1>2, <1>7 DEF Logout, TypeOK
<1>8. CASE Crash
  BY <1>1, <1>2, <1>4, <1>8 DEF Crash
<1>9. CASE Tick \/ UNCHANGED vars
  BY <1>2, <1>9 DEF Tick, vars
<1> QED
  BY <1>2, <1>5, <1>6, <1>7, <1>8, <1>9
     DEF Next, Serve, Login, Refresh, Store, Rotate, Logout

LEMMA TypedStep == Typed /\ [Next]_vars => Typed'
<1> SUFFICES ASSUME Typed, [Next]_vars PROVE Typed'
  OBVIOUS
<1>0. NoneEarly'
  BY NoneEarlyStep
<1> USE SessionsAssumption, RequestFields, <1>0 DEF Typed
<1>1. ASSUME NEW h \in Handlers, NEW c \in Clients, Login(h, c) PROVE Typed'
  <2>1. Become(h, Request("store", None, Sign(c), None)) /\ hold' = [hold EXCEPT ![c] = Sign(c)]
        /\ UNCHANGED <<now, stored, blocked>>
    BY <1>1 DEF Login, Begin
  <2>2. /\ req' \in [Handlers -> Requests]
        /\ req'[h] = Request("store", None, Sign(c), None)
        /\ \A g \in Handlers : g # h => req'[g] = req[g]
    BY <2>1, Signing, Becoming, NewRequests
  <2>3. TypeOK'
    BY <2>1, <2>2, Signing DEF TypeOK, Times
  <2>4. ~At(h, "rotate")'
    BY <2>2, NewRequests DEF At
  <2> QED
    BY <2>1, <2>2, <2>3, <2>4 DEF SignedFor, At
<1>2. ASSUME NEW h \in Handlers, NEW c \in Clients, Refresh(h, c) PROVE Typed'
  <2>1. /\ hold[c] \in Pair /\ Become(h, Request("rotate", c, Sign(c), hold[c]))
        /\ UNCHANGED <<now, hold, stored, blocked>>
    BY <1>2 DEF Refresh, Begin, TypeOK
  <2>2. /\ req' \in [Handlers -> Requests]
        /\ req'[h] = Request("rotate", c, Sign(c), hold[c])
        /\ \A g \in Handlers : g # h => req'[g] = req[g]
    BY <2>1, Signing, Becoming, NewRequests
  <2>3. TypeOK'
    BY <2>1, <2>2 DEF TypeOK
  <2>4. SignedFor(h)'
    <3>1. req'[h].pair = Sign(c) /\ req'[h].client = c /\ now' = now
      BY <2>1, <2>2, NewRequests
    <3>2. now <= now
      BY DEF TypeOK, Times
    <3> QED
      BY <3>1, <3>2, Signing DEF SignedFor
  <2> QED
    BY <2>1, <2>2, <2>3, <2>4 DEF SignedFor, At
<1>3. ASSUME NEW h \in Handlers, Store(h) PROVE Typed'
  <2>1. req' \in [Handlers -> Requests] /\ req'[h] = Idle
        /\ \A g \in Handlers : g # h => req'[g] = req[g]
    BY <1>3, Becoming DEF Store
  <2>2. req[h].pair \in Pair
    BY <1>3 DEF Store, At, TypeOK
  <2>3. stored' \in [Pair -> Nat]
    BY <1>3, <2>2 DEF Store, TypeOK
  <2>4. TypeOK'
    BY <1>3, <2>1, <2>3 DEF Store, TypeOK
  <2> QED
    BY <1>3, <2>1, <2>4 DEF Store, SignedFor, At
<1>4. ASSUME NEW h \in Handlers, Rotate(h) PROVE Typed'
  <2>1. /\ req[h] \in Requests /\ req[h].client \in Clients
        /\ req[h].pair \in Pair /\ req[h].spent \in Pair
        /\ req[h].pair.account = User[req[h].client] /\ req[h].pair.at <= now
    <3>1. req[h] \in Requests /\ req[h].pc = "rotate"
      BY <1>4 DEF Rotate, At, TypeOK
    <3> QED
      BY <3>1 DEF SignedFor, At
  <2>2. /\ req' \in [Handlers -> Requests]
        /\ req'[h] = Request("store", None, req[h].pair, None)
        /\ \A g \in Handlers : g # h => req'[g] = req[g]
    <3>1. Become(h, Request("store", None, req[h].pair, None))
      BY <1>4 DEF Rotate
    <3>2. Request("store", None, req[h].pair, None) \in Requests
      BY <2>1, NewRequests
    <3> QED
      BY <3>1, <3>2, Becoming
  <2>3. stored' \in [Pair -> Nat]
    BY <1>4, <2>1 DEF Rotate, DeleteOne, TypeOK
  <2>4. /\ hold' \in [Clients -> Pair \cup {None}]
        /\ \A c \in Clients : hold'[c] # None =>
                hold'[c].account = User[c] /\ hold'[c].at <= now
    <3>1. \/ hold' = hold
          \/ hold' = [hold EXCEPT ![req[h].client] = req[h].pair]
      BY <1>4 DEF Rotate
    <3> QED
      BY <2>1, <3>1 DEF TypeOK
  <2>5. TypeOK'
    BY <1>4, <2>2, <2>3, <2>4 DEF Rotate, TypeOK
  <2>6. ~At(h, "rotate")'
    BY <2>2, NewRequests DEF At
  <2> QED
    BY <1>4, <2>2, <2>5, <2>6 DEF Rotate, SignedFor, At
<1>5. ASSUME NEW c \in Clients, Logout(c) PROVE Typed'
  <2>1. now + 1000 * AccessLife \in Nat
    BY DEF TypeOK, Times
  <2>2. blocked' \in [Pair -> Nat]
    BY <1>5, <2>1 DEF Logout, BlockedUntil, TypeOK
  <2> QED
    BY <1>5, <2>2 DEF Logout, TypeOK, SignedFor, At
<1>6. CASE Tick
  <2>1. now \in Times /\ now' \in Times /\ now' = now + 1
    BY <1>6 DEF Tick, TypeOK, Times
  <2>2. \A t \in Pair : t.at \in Int
    BY DEF Pair, Times
  <2>3. ASSUME NEW c \in Clients, hold[c] # None PROVE hold[c].at <= now'
    <3>1. hold[c] \in Pair /\ hold[c].at <= now
      BY <2>3 DEF TypeOK
    <3>2. hold[c].at \in Int
      BY <2>2, <3>1
    <3>3. now \in Int /\ now' = now + 1
      BY <2>1 DEF Times
    <3> HIDE <1>0
    <3> QED
      BY <3>1, <3>2, <3>3
  <2>4. \A h \in Handlers : At(h, "rotate") => req[h].pair.at <= now'
    BY <2>1, <2>2 DEF TypeOK, SignedFor, At, Times
  <2>5. TypeOK'
    BY <1>6, <2>1, <2>3 DEF Tick, TypeOK
  <2> QED
    BY <1>6, <2>4, <2>5 DEF Tick, SignedFor, At
<1>7. CASE Crash
  BY <1>7 DEF Crash, TypeOK, SignedFor, At
<1>8. CASE UNCHANGED vars
  BY <1>8 DEF vars, TypeOK, SignedFor, At
<1> QED
  BY <1>1, <1>2, <1>3, <1>4, <1>5, <1>6, <1>7, <1>8 DEF Next, Serve

\* The steps with history are steps of the sessions.
LEMMA PlainStep == [HNext]_hvars => [Next]_vars
BY DEF HNext, hvars, Start, Answer, Other, Next, Serve

LEMMA TypedAlways == HSpec => []Typed
<1>1. HInit => Typed
  BY SessionsAssumption, RequestFields
     DEF HInit, Init, Typed, TypeOK, NoneEarly, SignedFor, Times, At, Idle, Request
<1>2. Typed /\ [HNext]_hvars => Typed'
  BY PlainStep, TypedStep
<1> QED
  BY <1>1, <1>2, PTL DEF HSpec

\* No token is held, stored, logged out or in a request before it is signed, and
\* clients hold tokens of their own accounts (auth.service.ts:74-214).
THEOREM TypeCorrect == HSpec => []TypeOK
BY TypedAlways, PTL DEF Typed

-----------------------------------------------------------------------------
(* Logged out tokens *)

\* Inductive: an entry in Redis outlives the token it shuts out.
BlockedLong == \A t \in Pair : blocked[t] # 0 => t.at + AccessLife <= blocked[t]

LEMMA BlockedStep == Typed /\ BlockedLong /\ [Next]_vars => BlockedLong'
<1> SUFFICES ASSUME Typed, BlockedLong, [Next]_vars PROVE BlockedLong'
  OBVIOUS
<1>1. ASSUME NEW c \in Clients, Logout(c) PROVE BlockedLong'
  <2>1. hold[c] \in Pair /\ hold[c].at <= now /\ hold[c].at \in Nat /\ now \in Nat
    BY <1>1 DEF Logout, Typed, TypeOK, Pair, Times
  <2>2. hold[c].at + AccessLife <= BlockedUntil
    BY <2>1, SessionsAssumption DEF BlockedUntil
  <2>3. blocked' = [blocked EXCEPT ![hold[c]] = BlockedUntil]
    BY <1>1 DEF Logout
  <2> QED
    BY <2>1, <2>2, <2>3 DEF BlockedLong, Typed, TypeOK
<1>2. CASE UNCHANGED blocked
  BY <1>2 DEF BlockedLong
<1> QED
  BY <1>1, <1>2 DEF Next, Serve, Login, Refresh, Store, Rotate, Tick, Crash, vars

\* A logged out access token is never let in again: the entry in Redis outlives
\* the token (auth.service.ts:202-214, redis-caching.service.ts:20-26).
THEOREM LoggedOut == HSpec => []LoggedOutStaysOut
<1>1. HInit => BlockedLong
  BY DEF HInit, Init, BlockedLong
<1>2. Typed /\ BlockedLong /\ [HNext]_hvars => BlockedLong'
  BY PlainStep, BlockedStep
<1>3. Typed /\ BlockedLong => LoggedOutStaysOut
  <2> SUFFICES ASSUME Typed, BlockedLong, NEW t \in Pair, blocked[t] # 0
               PROVE  ~Accepted(t)
    BY DEF LoggedOutStaysOut
  <2>1. t.at \in Nat /\ now \in Nat
    BY DEF Pair, Times, Typed, TypeOK
  <2>2. blocked[t] \in Nat
    BY DEF Typed, TypeOK
  <2> QED
    BY <2>1, <2>2, SessionsAssumption DEF BlockedLong, Accepted
<1> QED
  BY <1>1, <1>2, <1>3, TypedAlways, PTL DEF HSpec

-----------------------------------------------------------------------------
(* Holders of a pair *)

\* Inductive: a pair signed once is in one place at most, held by a client or
\* about to be handed out, and in none once it is logged out.  Every pair of
\* this second was noted.
Issued(h, t) == At(h, "rotate") /\ req[h].pair = t

OnePlace(t) ==
    /\ \A c, d \in Clients : hold[c] = t /\ hold[d] = t => c = d
    /\ \A h, g \in Handlers : Issued(h, t) /\ Issued(g, t) => h = g
    /\ \A c \in Clients, h \in Handlers : ~(hold[c] = t /\ Issued(h, t))

Nowhere(t) ==
    /\ \A c \in Clients : hold[c] # t
    /\ \A h \in Handlers : ~Issued(h, t)

Placed ==
    /\ \A t \in signed : t.at <= now
    /\ \A t \in Pair : now <= t.at /\ t \notin signed => Nowhere(t) /\ blocked[t] = 0
    /\ \A t \in Pair \ twins : OnePlace(t) /\ (blocked[t] # 0 => Nowhere(t))

\* A pair signed afresh is nowhere yet.
LEMMA SignedAfresh ==
    ASSUME Typed, Placed, NEW c \in Clients, Signs(c), Sign(c) \notin twins'
    PROVE  Nowhere(Sign(c)) /\ blocked[Sign(c)] = 0
<1>1. Sign(c) \in Pair /\ Sign(c).at = now /\ now <= now
  BY Signing DEF Typed, TypeOK, Times
<1>2. Sign(c) \notin signed
  BY DEF Signs
<1> QED
  BY <1>1, <1>2 DEF Placed

LEMMA PlacedStep ==
    ASSUME Typed, Placed, [HNext]_hvars
    PROVE  Placed'
<1> USE SessionsAssumption DEF Typed
<1>0. twins \subseteq twins'
  BY DEF HNext, Start, Answer, Other, Signs, hvars, history
<1>1. ASSUME NEW h \in Handlers, NEW c \in Clients, Start(h, c)
      PROVE  Placed'
  <2>0. PICK s \in Pair : s = Sign(c)
    BY Signing
  <2>1. Signs(c) /\ now' = now /\ blocked' = blocked /\ signed' = signed \cup {s}
    BY <1>1, <2>0 DEF Start, Login, Refresh, Signs
  <2>2. \A g \in Handlers : g # h => req'[g] = req[g]
    BY <1>1 DEF Start, Login, Refresh, Begin, Become, TypeOK
  <2>3. \/ /\ hold' = [hold EXCEPT ![c] = s]
           /\ \A t \in Pair : ~Issued(h, t)'
        \/ /\ hold' = hold
           /\ \A t \in Pair : Issued(h, t)' => t = s
    <3>1. CASE Login(h, c)
      <4>1. req'[h] = Request("store", None, s, None)
        BY <2>0, <3>1 DEF Login, Begin, Become, TypeOK
      <4> QED
        BY <2>0, <3>1, <4>1, NewRequests DEF Login, Issued, At
    <3>2. CASE Refresh(h, c)
      <4>1. req'[h] = Request("rotate", c, s, hold[c])
        BY <2>0, <3>2 DEF Refresh, Begin, Become, TypeOK
      <4> QED
        BY <3>2, <4>1, NewRequests DEF Refresh, Issued, At
    <3> QED
      BY <1>1, <3>1, <3>2 DEF Start
  <2>4. ASSUME NEW t \in Pair, t # s
        PROVE  /\ \A d \in Clients : hold'[d] = t => hold[d] = t
               /\ \A g \in Handlers : Issued(g, t)' => Issued(g, t)
    BY <2>2, <2>3, <2>4 DEF Issued, At, TypeOK
  <2>5. ASSUME s \notin twins'
        PROVE  OnePlace(s)' /\ blocked'[s] = 0
    <3>1. Nowhere(s) /\ blocked[s] = 0
      BY <2>0, <2>1, <2>5, SignedAfresh
    <3>2. \A g \in Handlers : Issued(g, s)' => g = h
      BY <2>2, <3>1 DEF Nowhere, Issued, At
    <3>3. \A d \in Clients : hold'[d] = s => d = c /\ ~Issued(h, s)'
      BY <2>3, <3>1 DEF Nowhere, TypeOK
    <3> QED
      BY <2>1, <3>1, <3>2, <3>3 DEF OnePlace
  <2>6. \A t \in Pair : now' <= t.at /\ t \notin signed' =>
            Nowhere(t)' /\ blocked'[t] = 0
    BY <2>1, <2>4 DEF Placed, Nowhere
  <2>7. \A t \in Pair \ twins' : OnePlace(t)' /\ (blocked'[t] # 0 => Nowhere(t)')
    BY <1>0, <2>1, <2>4, <2>5 DEF Placed, OnePlace, Nowhere
  <2>8. \A t \in signed' : t.at <= now'
    BY <2>0, <2>1, Signing DEF Placed, TypeOK, Times
  <2> QED
    BY <2>6, <2>7, <2>8 DEF Placed
<1>2. ASSUME NEW h \in Handlers, Answer(h) PROVE Placed'
  <2>1. req[h] \in Requests /\ req[h].pc = "rotate"
    BY <1>2 DEF Answer, Rotate, At, TypeOK
  <2>2. PICK p \in Pair, c \in Clients : Issued(h, p) /\ p = req[h].pair /\ c = req[h].client
    BY <2>1, RequestFields DEF Issued, At
  <2>3. p.at <= now /\ UNCHANGED <<now, blocked, signed, twins>>
    BY <1>2, <2>1, <2>2 DEF Answer, Rotate, SignedFor, At
  <2>4. /\ \A d \in Clients : hold'[d] = hold[d] \/ (d = c /\ hold'[d] = p)
        /\ \A g \in Handlers : g # h => req'[g] = req[g]
        /\ \A t \in Pair : ~Issued(h, t)'
    <3>1. hold' = hold \/ hold' = [hold EXCEPT ![c] = p]
      BY <1>2, <2>2 DEF Answer, Rotate
    <3>2. req' = [req EXCEPT ![h] = Request("store", None, p, None)]
      BY <1>2, <2>2 DEF Answer, Rotate, Become
    <3> QED
      BY <3>1, <3>2, NewRequests DEF Issued, At, TypeOK
  <2>5. ASSUME NEW t \in Pair, t # p
        PROVE  /\ \A d \in Clients : hold'[d] = t => hold[d] = t
               /\ \A g \in Handlers : Issued(g, t)' => Issued(g, t)
    BY <2>4, <2>5 DEF Issued, At
  <2>6. ASSUME p \notin twins
        PROVE  OnePlace(p)' /\ blocked[p] = 0
    <3>1. OnePlace(p) /\ blocked[p] = 0
      BY <2>2, <2>6 DEF Placed, Nowhere
    <3>2. \A g \in Handlers : ~Issued(g, p)'
      BY <2>2, <2>4, <3>1 DEF OnePlace, Issued, At
    <3>3. \A d \in Clients : hold'[d] = p => d = c
      BY <2>2, <2>4, <3>1 DEF OnePlace
    <3> QED
      BY <3>1, <3>2, <3>3 DEF OnePlace
  <2>7. p.at >= now => p \in signed
    BY <2>2, <2>3 DEF Placed, Nowhere, Pair, Times, TypeOK
  <2>8. \A t \in Pair : now' <= t.at /\ t \notin signed' =>
            Nowhere(t)' /\ blocked'[t] = 0
    BY <2>3, <2>5, <2>7 DEF Placed, Nowhere, Pair, Times, TypeOK
  <2>9. \A t \in Pair \ twins' : OnePlace(t)' /\ (blocked'[t] # 0 => Nowhere(t)')
    BY <2>3, <2>5, <2>6 DEF Placed, OnePlace, Nowhere
  <2> QED
    BY <2>3, <2>8, <2>9 DEF Placed
<1>3. ASSUME NEW c \in Clients, Logout(c), UNCHANGED <<signed, twins>> PROVE Placed'
  <2>1. PICK s \in Pair : s = hold[c]
    BY <1>3 DEF Logout, TypeOK
  <2>2. /\ \A d \in Clients : hold'[d] = IF d = c THEN None ELSE hold[d]
        /\ \A t \in Pair : t # s => blocked'[t] = blocked[t]
        /\ \A h \in Handlers, t \in Pair : Issued(h, t)' <=> Issued(h, t)
        /\ now' = now
    BY <1>3, <2>1 DEF Logout, TypeOK, Issued, At
  <2>3. s \notin twins => Nowhere(s)' /\ OnePlace(s)'
    BY <2>1, <2>2 DEF Placed, OnePlace, Nowhere
  <2>4. now <= s.at => s \in signed
    BY <2>1 DEF Placed, Nowhere
  <2>5. \A t \in Pair : t # s =>
            /\ Nowhere(t) => Nowhere(t)'
            /\ OnePlace(t) => OnePlace(t)'
    BY <2>2 DEF Nowhere, OnePlace
  <2>6. \A t \in Pair : now' <= t.at /\ t \notin signed' =>
            Nowhere(t)' /\ blocked'[t] = 0
    BY <1>3, <2>2, <2>4, <2>5 DEF Placed
  <2>7. \A t \in Pair \ twins' : OnePlace(t)' /\ (blocked'[t] # 0 => Nowhere(t)')
    BY <1>3, <2>2, <2>3, <2>5 DEF Placed
  <2> QED
    BY <1>3, <2>2, <2>6, <2>7 DEF Placed
<1>4. CASE Tick /\ signed' = {} /\ twins' = twins
  <2>1. /\ now' = now + 1 /\ now \in Nat
        /\ \A t \in Pair : t.at \in Nat
        /\ UNCHANGED <<hold, blocked, req>>
    BY <1>4 DEF Tick, Pair, Times, TypeOK
  <2>2. \A t \in Pair : (Nowhere(t)' <=> Nowhere(t)) /\ (OnePlace(t)' <=> OnePlace(t))
    BY <2>1 DEF Nowhere, OnePlace, Issued, At
  <2>3. ASSUME NEW t \in Pair, now' <= t.at PROVE Nowhere(t) /\ blocked[t] = 0
    <3>1. now < t.at
      BY <2>1, <2>3
    <3>2. \A d \in Clients : hold[d] # t
      BY <2>1, <3>1 DEF TypeOK
    <3>3. \A h \in Handlers : ~Issued(h, t)
      BY <2>1, <3>1 DEF Issued, SignedFor
    <3>4. blocked[t] = 0
      BY <2>1, <3>1 DEF Placed
    <3> QED
      BY <3>2, <3>3, <3>4 DEF Nowhere
  <2> QED
    BY <1>4, <2>1, <2>2, <2>3 DEF Placed
<1>5. CASE (\E h \in Handlers : Store(h) \/ Crash) /\ UNCHANGED <<signed, twins>>
  <2>1. /\ UNCHANGED <<now, hold, blocked>>
        /\ \A h \in Handlers, t \in Pair : Issued(h, t)' => Issued(h, t)
    BY <1>5, RequestFields DEF Store, Crash, Become, Issued, At, TypeOK
  <2>2. \A t \in Pair : (Nowhere(t) => Nowhere(t)') /\ (OnePlace(t) => OnePlace(t)')
    BY <2>1 DEF Nowhere, OnePlace
  <2> QED
    BY <1>5, <2>1, <2>2 DEF Placed
<1>6. CASE UNCHANGED hvars
  BY <1>6 DEF hvars, vars, history, Placed, Nowhere, OnePlace, Issued, At
<1> QED
  BY <1>1, <1>2, <1>3, <1>4, <1>5, <1>6 DEF HNext, Other, Crash

\* A client that did not log out is let in until its access token expires, unless
\* its pair was signed twice in a second (auth.service.ts:74-125,
\* jwt.strategy.ts:29-43).
THEOREM LetIn == HSpec => []HoldersAreAccepted
<1>1. HInit => Placed
  BY RequestFields, SessionsAssumption
     DEF HInit, Init, Placed, Nowhere, OnePlace, Issued, At
<1>2. Typed /\ Placed /\ [HNext]_hvars => Placed'
  BY PlacedStep
<1>3. Typed /\ Placed => HoldersAreAccepted
  <2> SUFFICES ASSUME Typed, Placed, NEW c \in Clients, hold[c] # None,
                      hold[c] \notin twins, now < hold[c].at + AccessLife
               PROVE  Accepted(hold[c])
    BY DEF HoldersAreAccepted
  <2>1. hold[c] \in Pair /\ now \in Nat
    BY DEF Typed, TypeOK, Times
  <2>2. blocked[hold[c]] = 0
    BY <2>1 DEF Placed, Nowhere
  <2> QED
    BY <2>1, <2>2 DEF Accepted
<1> QED
  BY <1>1, <1>2, <1>3, TypedAlways, PTL DEF HSpec

-----------------------------------------------------------------------------
(* Pairs that can be refreshed *)

\* Inductive: the property, and that no other pair is spent too often.
Afforded ==
    \A t \in Pair \ (overdrawn \cup cut) :
        /\ ~Overdrawn(t)
        /\ Cardinality(Holders(t)) <= stored[t] + Cardinality(Storing(t))

\* How many holders of t and requests about to store t there are: natural numbers.
LEMMA Counts ==
    ASSUME NEW t
    PROVE  /\ IsFiniteSet(Holders(t)) /\ IsFiniteSet(Storing(t))
           /\ IsFiniteSet(Storing(t)')
           /\ Cardinality(Holders(t)) \in Nat /\ Cardinality(Storing(t)) \in Nat
<1>1. Holders(t) \subseteq Clients /\ Storing(t) \subseteq Handlers
      /\ Storing(t)' \subseteq Handlers
  BY DEF Holders, Storing
<1> QED
  BY <1>1, SessionsAssumption, FS_Subset, FS_CardinalityType

\* A set grows by one element at most.
LEMMA OneMore ==
    ASSUME NEW S, IsFiniteSet(S), NEW x, NEW T \in SUBSET (S \cup {x})
    PROVE  Cardinality(T) \in Nat /\ Cardinality(T) <= Cardinality(S) + 1
<1>1. /\ IsFiniteSet(S \cup {x}) /\ Cardinality(S) \in Nat
      /\ \/ Cardinality(S \cup {x}) = Cardinality(S)
         \/ Cardinality(S \cup {x}) = Cardinality(S) + 1
  BY FS_AddElement, FS_CardinalityType
<1>2. IsFiniteSet(T) /\ Cardinality(T) <= Cardinality(S \cup {x})
  BY <1>1, FS_Subset
<1>3. Cardinality(T) \in Nat
  BY <1>2, FS_CardinalityType
<1> QED
  BY <1>1, <1>2, <1>3

\* The steps that change how many holders or requests there are for t.
LEMMA LogsIn ==
    ASSUME Typed, NEW h \in Handlers, NEW c \in Clients, Login(h, c),
           adrift' = adrift \ {c}, NEW t \in Pair,
           Cardinality(Holders(t)) <= stored[t] + Cardinality(Storing(t))
    PROVE  Cardinality(Holders(t)') <= stored'[t] + Cardinality(Storing(t)')
<1> USE SessionsAssumption DEF Typed
<1>1. PICK s \in Pair : s = Sign(c)
  BY Signing
<1>2. /\ hold' = [hold EXCEPT ![c] = s] /\ stored' = stored /\ req[h] = Idle
      /\ req' = [req EXCEPT ![h] = Request("store", None, s, None)]
  BY <1>1 DEF Login, Begin, Become
<1>3. stored[t] \in Nat
  BY DEF TypeOK
<1>4. \A g \in Handlers : g \in Storing(t)' <=> g \in Storing(t) \/ (g = h /\ t = s)
  BY <1>2, NewRequests, RequestFields DEF Storing, At, TypeOK
<1>5. h \notin Storing(t)
  BY <1>2, RequestFields DEF Storing, At
<1>6. CASE t = s
  <2>1. Holders(t)' \subseteq Holders(t) \cup {c}
    BY <1>2 DEF Holders, TypeOK
  <2>2. Storing(t)' = Storing(t) \cup {h}
    BY <1>4, <1>6 DEF Storing
  <2>3. Cardinality(Storing(t)') = Cardinality(Storing(t)) + 1
    BY <1>5, <2>2, Counts, FS_AddElement
  <2>4. Cardinality(Holders(t)') \in Nat
        /\ Cardinality(Holders(t)') <= Cardinality(Holders(t)) + 1
    BY <2>1, Counts, OneMore
  <2> QED
    BY <1>2, <1>3, <2>3, <2>4, Counts
<1>7. CASE t # s
  <2>1. Holders(t)' \subseteq Holders(t)
    BY <1>2, <1>7 DEF Holders, TypeOK
  <2>2. Storing(t)' = Storing(t)
    BY <1>4, <1>7 DEF Storing
  <2>3. Cardinality(Holders(t)') <= Cardinality(Holders(t)) /\ Cardinality(Holders(t)') \in Nat
    BY <2>1, Counts, FS_Subset, FS_CardinalityType
  <2>4. Cardinality(Holders(t)) \in Nat /\ Cardinality(Storing(t)) \in Nat
    BY Counts
  <2> QED
    BY <1>2, <1>3, <2>2, <2>3, <2>4
<1> QED
  BY <1>6, <1>7

LEMMA Stores ==
    ASSUME Typed, NEW h \in Handlers, Store(h), adrift' = adrift, NEW t \in Pair,
           Cardinality(Holders(t)) <= stored[t] + Cardinality(Storing(t))
    PROVE  Cardinality(Holders(t)') <= stored'[t] + Cardinality(Storing(t)')
<1> USE SessionsAssumption DEF Typed
<1>1. PICK p \in Pair : p = req[h].pair
  BY RequestFields DEF Store, At, TypeOK
<1>2. /\ hold' = hold /\ stored' = [stored EXCEPT ![p] = @ + 1]
      /\ req' = [req EXCEPT ![h] = Idle] /\ At(h, "store")
  BY <1>1 DEF Store, Become
<1>3. stored[t] \in Nat /\ Holders(t)' = Holders(t)
  BY <1>2 DEF TypeOK, Holders
<1>4. \A g \in Handlers : g \in Storing(t)' <=> g \in Storing(t) /\ g # h
  BY <1>2, RequestFields DEF Storing, At, TypeOK
<1>5. h \in Storing(t) <=> t = p
  BY <1>1, <1>2 DEF Storing
<1>6. CASE t = p
  <2>1. Storing(t)' = Storing(t) \ {h}
    BY <1>4 DEF Storing
  <2>2. Cardinality(Storing(t)') = Cardinality(Storing(t)) - 1
    BY <1>5, <1>6, <2>1, Counts, FS_RemoveElement
  <2>3. stored'[t] = stored[t] + 1
    BY <1>2, <1>6 DEF TypeOK
  <2> QED
    BY <1>3, <2>2, <2>3, Counts
<1>7. CASE t # p
  <2>1. Storing(t)' = Storing(t)
    BY <1>4, <1>5, <1>7 DEF Storing
  <2>2. stored'[t] = stored[t]
    BY <1>2, <1>7 DEF TypeOK
  <2> QED
    BY <1>3, <2>1, <2>2
<1> QED
  BY <1>6, <1>7

LEMMA Answers ==
    ASSUME Typed, NEW h \in Handlers, Answer(h), NEW t \in Pair, ~Overdrawn(t),
           Cardinality(Holders(t)) <= stored[t] + Cardinality(Storing(t))
    PROVE  Cardinality(Holders(t)') <= stored'[t] + Cardinality(Storing(t)')
<1> USE SessionsAssumption DEF Typed
<1>1. req[h] \in Requests /\ req[h].pc = "rotate"
  BY DEF Answer, Rotate, At, TypeOK
<1>2. PICK p \in Pair, s \in Pair, c \in Clients :
        p = req[h].pair /\ s = req[h].spent /\ c = req[h].client
  BY <1>1, RequestFields
<1>3. /\ stored' = [stored EXCEPT ![s] = IF stored[s] > 0 THEN @ - 1 ELSE 0]
      /\ req' = [req EXCEPT ![h] = Request("store", None, p, None)]
      /\ \/ hold' = hold /\ adrift' = adrift \cup {c}
         \/ /\ hold' = [hold EXCEPT ![c] = p] /\ hold' # hold
            /\ adrift' = adrift \ {c}
  BY <1>2 DEF Answer, Rotate, DeleteOne, Become
<1>4. \A g \in Handlers : g \in Storing(t)' <=> g \in Storing(t) \/ (g = h /\ t = p)
  BY <1>1, <1>3, NewRequests DEF Storing, At, TypeOK
<1>5. h \notin Storing(t)
  BY <1>1 DEF Storing, At
<1>6. Cardinality(Storing(t)') =
            IF t = p THEN Cardinality(Storing(t)) + 1 ELSE Cardinality(Storing(t))
  <2>1. CASE t = p
    <3>1. Storing(t)' = Storing(t) \cup {h}
      BY <1>4, <2>1 DEF Storing
    <3> QED
      BY <1>5, <2>1, <3>1, Counts, FS_AddElement
  <2>2. CASE t # p
    <3>1. Storing(t)' = Storing(t)
      BY <1>4, <2>2 DEF Storing
    <3> QED
      BY <2>2, <3>1
  <2> QED
    BY <2>1, <2>2
<1>7. t = s => c \in Holders(t)
  BY <1>1, <1>2 DEF Overdrawn, Spending, At
<1>8. stored[t] \in Nat /\ stored'[t] \in Nat
      /\ stored'[t] >= IF t = s THEN stored[t] - 1 ELSE stored[t]
  BY <1>3 DEF TypeOK
<1>9. /\ Cardinality(Holders(t)') \in Nat
      /\ Cardinality(Holders(t)') <=
            IF t = s THEN Cardinality(Holders(t)) - 1
            ELSE IF t = p THEN Cardinality(Holders(t)) + 1
            ELSE Cardinality(Holders(t))
  <2>1. CASE t = s
    <3>1. Holders(t)' \subseteq Holders(t) \ {c}
      BY <1>3, <1>7, <2>1 DEF Holders, TypeOK
    <3>2. Cardinality(Holders(t) \ {c}) = Cardinality(Holders(t)) - 1
          /\ IsFiniteSet(Holders(t) \ {c})
      BY <1>7, <2>1, Counts, FS_RemoveElement
    <3> QED
      BY <2>1, <3>1, <3>2, FS_Subset, FS_CardinalityType
  <2>2. CASE t # s /\ t = p
    <3>1. Holders(t)' \subseteq Holders(t) \cup {c}
      BY <1>3, <2>2 DEF Holders, TypeOK
    <3> QED
      BY <2>2, <3>1, Counts, OneMore
  <2>3. CASE t # s /\ t # p
    <3>1. Holders(t)' \subseteq Holders(t)
      BY <1>3, <2>3 DEF Holders, TypeOK
    <3> QED
      BY <2>3, <3>1, Counts, FS_Subset, FS_CardinalityType
  <2> QED
    BY <2>1, <2>2, <2>3
<1> QED
  BY <1>6, <1>8, <1>9, Counts

LEMMA AffordedStep ==
    ASSUME Typed, Afforded, [HNext]_hvars
    PROVE  Afforded'
<1> USE SessionsAssumption DEF Typed
<1>1. CASE UNCHANGED hvars
  BY <1>1 DEF hvars, vars, history, Afforded, Overdrawn, Holders, Spending, Storing, At
<1>2. CASE HNext
  <2>1. /\ overdrawn' = overdrawn \cup {t \in Pair : Overdrawn(t)'}
        /\ cut \subseteq cut'
    BY <1>2 DEF HNext, Start, Answer, Other, Signs
  <2> SUFFICES ASSUME NEW t \in Pair, t \notin overdrawn', t \notin cut'
               PROVE  Cardinality(Holders(t)') <= stored'[t] + Cardinality(Storing(t)')
    BY <2>1 DEF Afforded
  <2>2. ~Overdrawn(t) /\ Cardinality(Holders(t)) <= stored[t] + Cardinality(Storing(t))
    BY <2>1 DEF Afforded
  <2>3. ASSUME NEW h \in Handlers, Answer(h)
        PROVE  Cardinality(Holders(t)') <= stored'[t] + Cardinality(Storing(t)')
    BY <2>2, <2>3, Answers
  <2>4. ASSUME NEW h \in Handlers, NEW c \in Clients, Start(h, c)
        PROVE  Cardinality(Holders(t)') <= stored'[t] + Cardinality(Storing(t)')
    <3>1. CASE Refresh(h, c) /\ adrift' = adrift
      <4>1. /\ UNCHANGED <<hold, stored, adrift>> /\ req[h] = Idle
            /\ req' = [req EXCEPT ![h] = Request("rotate", c, Sign(c), hold[c])]
        BY <3>1 DEF Refresh, Begin, Become
      <4>2. \A g \in Handlers : g \in Storing(t)' <=> g \in Storing(t)
        BY <4>1, NewRequests, RequestFields DEF Storing, At, TypeOK
      <4>3. Storing(t)' = Storing(t) /\ Holders(t)' = Holders(t)
        BY <4>1, <4>2 DEF Storing, Holders
      <4> QED
        BY <2>2, <4>1, <4>3
    <3> QED
      BY <2>2, <2>4, <3>1, LogsIn DEF Start
  <2>5. CASE Other
    <3>1. ASSUME NEW h \in Handlers, Store(h), adrift' = adrift
          PROVE  Cardinality(Holders(t)') <= stored'[t] + Cardinality(Storing(t)')
      BY <2>2, <3>1, Stores
    <3>2. ASSUME NEW c \in Clients, Logout(c), adrift' = adrift \ {c}
          PROVE  Cardinality(Holders(t)') <= stored'[t] + Cardinality(Storing(t)')
      <4>1. Holders(t)' \subseteq Holders(t)
        BY <3>2 DEF Logout, Holders, TypeOK
      <4>2. Storing(t)' = Storing(t) /\ stored' = stored
        BY <3>2 DEF Logout, Storing, At
      <4>3. Cardinality(Holders(t)') <= Cardinality(Holders(t))
            /\ Cardinality(Holders(t)') \in Nat
        BY <4>1, Counts, FS_Subset, FS_CardinalityType
      <4>4. /\ Cardinality(Holders(t)) \in Nat /\ Cardinality(Storing(t)) \in Nat
            /\ stored[t] \in Nat
        BY Counts DEF TypeOK
      <4> QED
        BY <2>2, <4>2, <4>3, <4>4
    <3>3. CASE Tick /\ adrift' = adrift
      <4>1. Holders(t)' = Holders(t) /\ Storing(t)' = Storing(t) /\ stored' = stored
        BY <3>3 DEF Tick, Holders, Storing, At
      <4> QED
        BY <2>2, <4>1
    <3>4. CASE Crash /\ adrift' = adrift /\ cut' = cut \cup {s \in Pair : Storing(s) # {}}
      <4>1. Storing(t) = {} /\ stored' = stored /\ Holders(t)' = Holders(t)
        BY <3>4 DEF Crash, Holders
      <4>2. Storing(t)' = {}
        BY <3>4, RequestFields DEF Crash, Storing, At
      <4> QED
        BY <2>2, <4>1, <4>2
    <3> QED
      BY <2>5, <3>1, <3>2, <3>3, <3>4 DEF Other
  <2> QED
    BY <1>2, <2>3, <2>4, <2>5 DEF HNext
<1> QED
  BY <1>1, <1>2

\* For every client that holds a pair there is a stored refresh token, or one
\* about to be, unless a crash lost it or the pair was asked to be refreshed more
\* often than there are clients entitled to (auth.service.ts:163-200, 216-226).
THEOREM CanRefresh == HSpec => []HoldersCanRefresh
<1>1. HInit => Afforded
  <2> SUFFICES ASSUME HInit, NEW t \in Pair
               PROVE  ~Overdrawn(t) /\ Cardinality(Holders(t)) <= stored[t] + Cardinality(Storing(t))
    BY DEF Afforded
  <2>1. Holders(t) = {} /\ Storing(t) = {} /\ Spending(t) = {} /\ stored[t] = 0
    BY RequestFields, SessionsAssumption DEF HInit, Init, Holders, Storing, Spending, At
  <2> QED
    BY <2>1, FS_EmptySet DEF Overdrawn
<1>2. Typed /\ Afforded /\ [HNext]_hvars => Afforded'
  BY AffordedStep
<1>3. Afforded => HoldersCanRefresh
  BY DEF Afforded, HoldersCanRefresh
<1> QED
  BY <1>1, <1>2, <1>3, TypedAlways, PTL DEF HSpec
=============================================================================
