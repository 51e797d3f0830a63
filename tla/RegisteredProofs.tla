--------------------------- MODULE RegisteredProofs ---------------------------
(* Theorems about RegisteredHistory, for any number of people, user names,   *)
(* addresses, roles and handlers.                                            *)
EXTENDS RegisteredHistory, FiniteSetTheorems, TLAPS

-----------------------------------------------------------------------------
(* Type correctness *)

Steps == {"username", "customer", "lookup", "account", "role"}

\* The fields of the idle request and of one in progress.
LEMMA RequestFields ==
    /\ Idle \in Requests /\ Idle.pc = "idle" /\ Idle.public = FALSE
    /\ Idle.user = None /\ Idle.name = None
    /\ \A q \in Requests : q.pc # "idle" =>
        /\ q.pc \in Steps /\ q.user \in People /\ q.name \in Usernames
        /\ q.public \in BOOLEAN
BY DEF Requests, Idle, Request, Steps

\* A slot that goes on keeps everything of its request but the step.
LEMMA GoneTo ==
    ASSUME TypeOK, NEW h \in Handlers, NEW step \in Steps, req[h].pc # "idle",
           GoTo(h, step)
    PROVE  /\ req' \in [Handlers -> Requests]
           /\ req'[h].pc = step /\ req'[h].user = req[h].user
           /\ req'[h].name = req[h].name /\ req'[h].public = req[h].public
           /\ \A g \in Handlers : g # h => req'[g] = req[g]
<1>1. req[h] \in [pc : Steps, user : People, name : Usernames, public : BOOLEAN]
  BY RequestFields DEF TypeOK, Requests, Steps
<1>2. [req[h] EXCEPT !.pc = step] \in Requests
  BY <1>1 DEF Requests, Steps
<1> QED
  BY <1>1, <1>2 DEF TypeOK, GoTo

\* A slot that is done is idle.
LEMMA Finished ==
    ASSUME TypeOK, NEW h \in Handlers, Finish(h)
    PROVE  /\ req' \in [Handlers -> Requests]
           /\ req'[h] = Idle
           /\ \A g \in Handlers : g # h => req'[g] = req[g]
BY RequestFields DEF TypeOK, Finish

\* A slot that starts has its request.
LEMMA Begun ==
    ASSUME TypeOK, NEW h \in Handlers, NEW u \in People, NEW n \in Usernames,
           NEW public \in BOOLEAN, Begin(h, Request("username", u, n, public))
    PROVE  /\ req' \in [Handlers -> Requests]
           /\ req[h].pc = "idle"
           /\ req'[h].pc = "username" /\ req'[h].user = u /\ req'[h].name = n
           /\ req'[h].public = public
           /\ \A g \in Handlers : g # h => req'[g] = req[g]
<1>1. Request("username", u, n, public) \in Requests
  BY DEF Requests, Request
<1> QED
  BY <1>1 DEF TypeOK, Begin, Request

\* What the type invariant asks of one slot.
TypedSlot(r) ==
    /\ r.pc \in {"customer", "lookup"} => r.public
    /\ r.public => r.user \in Customers
    /\ (r.pc \in {"lookup", "account"} \/ (r.pc = "username" /\ ~r.public))
        => r.user \in Persons
    /\ r.pc = "role" => account[r.name] = r.user

\* Every step of a registration keeps the types.
LEMMA TypeRegister ==
    ASSUME TypeOK, NEW h \in Handlers, Register(h)
    PROVE  TypeOK'
<1> USE RequestFields, AccountsAssumption
<1>0. \A g \in Handlers : TypedSlot(req[g])
  BY DEF TypeOK, TypedSlot
<1>1. ASSUME NEW u \in People, NEW n \in Usernames, NEW public \in BOOLEAN,
             Begin(h, Request("username", u, n, public)),
             public => u \in Customers, ~public => u \in Persons,
             UNCHANGED <<Documents, session>>
      PROVE  TypeOK'
  <2>1. /\ req' \in [Handlers -> Requests]
        /\ req'[h].pc = "username" /\ req'[h].user = u /\ req'[h].name = n
        /\ req'[h].public = public
        /\ \A g \in Handlers : g # h => req'[g] = req[g]
    BY <1>1, Begun
  <2>2. \A g \in Handlers : TypedSlot(req[g])'
    BY <1>0, <1>1, <2>1 DEF TypedSlot, Documents, Persons
  <2> QED
    BY <1>1, <2>1, <2>2 DEF TypeOK, TypedSlot, Documents, Persons
<1>2. ASSUME NEW c \in Customers, NEW n \in Usernames, PhoneFree(h, c, n)
      PROVE  TypeOK'
  BY <1>1, <1>2 DEF PhoneFree, People
<1>3. ASSUME NEW u \in People, NEW n \in Usernames, UserChecked(h, u, n)
      PROVE  TypeOK'
  BY <1>1, <1>3 DEF UserChecked, UserAccepted, Persons
<1>4. CASE CheckUsername(h)
  <2>1. UNCHANGED Documents /\ UNCHANGED session /\ req[h].pc = "username"
    BY <1>4 DEF CheckUsername, At
  <2>2. \/ Finish(h)
        \/ req[h].public /\ GoTo(h, "customer")
        \/ ~req[h].public /\ GoTo(h, "account")
    BY <1>4 DEF CheckUsername
  <2>3. (\A g \in Handlers : TypedSlot(req[g])') /\ req' \in [Handlers -> Requests]
    BY <1>0, <2>1, <2>2, GoneTo, Finished DEF TypedSlot, Documents, Persons, Steps
  <2> QED
    BY <2>1, <2>3 DEF TypeOK, TypedSlot, Documents, Persons
<1>5. CASE StoreCustomer(h)
  <2>1. /\ UNCHANGED <<staff, roles, account, role, session>>
        /\ req[h].pc = "customer" /\ req[h].user \in Customers
    BY <1>0, <1>5 DEF StoreCustomer, At, TypedSlot
  <2>2. \/ Finish(h) /\ customer' = customer
        \/ GoTo(h, "lookup") /\ customer' = customer \cup {req[h].user}
    BY <1>5 DEF StoreCustomer
  <2>3. (\A g \in Handlers : TypedSlot(req[g])') /\ req' \in [Handlers -> Requests]
    BY <1>0, <2>1, <2>2, GoneTo, Finished DEF TypedSlot, Persons, Steps
  <2> QED
    BY <2>1, <2>2, <2>3 DEF TypeOK, TypedSlot, Persons
<1>6. CASE FindRole(h)
  <2>1. UNCHANGED Documents /\ UNCHANGED session /\ req[h].pc = "lookup"
    BY <1>6 DEF FindRole, At
  <2>2. Finish(h) \/ GoTo(h, "account")
    BY <1>6 DEF FindRole
  <2>3. (\A g \in Handlers : TypedSlot(req[g])') /\ req' \in [Handlers -> Requests]
    BY <1>0, <2>1, <2>2, GoneTo, Finished DEF TypedSlot, Documents, Persons, Steps
  <2> QED
    BY <2>1, <2>3 DEF TypeOK, TypedSlot, Documents, Persons
<1>7. CASE StoreAccount(h)
  <2>1. /\ UNCHANGED <<customer, staff, roles, role, session>>
        /\ req[h].pc = "account" /\ req[h].name \in Usernames
        /\ req[h].user \in Persons /\ req[h].user \in People
    BY <1>0, <1>7 DEF StoreAccount, At, TypedSlot, TypeOK
  <2>2. \/ Finish(h) /\ account' = account
        \/ /\ account[req[h].name] = None /\ GoTo(h, "role")
           /\ account' = [account EXCEPT ![req[h].name] = req[h].user]
    BY <1>7 DEF StoreAccount
  <2>3. /\ account' \in [Usernames -> Persons \cup {None}]
        /\ \A n \in Usernames : account[n] # None => account'[n] = account[n]
    BY <2>1, <2>2 DEF TypeOK
  <2>4. \A g \in Handlers : req[g].pc = "role" =>
            req[g].name \in Usernames /\ account[req[g].name] # None
    BY <1>0 DEF TypedSlot, TypeOK, People
  <2>5. (\A g \in Handlers : TypedSlot(req[g])') /\ req' \in [Handlers -> Requests]
    BY <1>0, <2>1, <2>2, <2>3, <2>4, GoneTo, Finished
       DEF TypedSlot, Persons, Steps, TypeOK
  <2> QED
    BY <2>1, <2>3, <2>5 DEF TypeOK, TypedSlot, Persons
<1>8. CASE StoreRole(h)
  <2>1. /\ UNCHANGED <<customer, staff, roles, account, session>>
        /\ req[h].pc = "role" /\ req[h].name \in Usernames
        /\ account[req[h].name] \in People /\ Finish(h)
        /\ role' = role \cup {req[h].name}
    BY <1>0, <1>8 DEF StoreRole, At, TypedSlot, TypeOK
  <2>2. (\A g \in Handlers : TypedSlot(req[g])') /\ req' \in [Handlers -> Requests]
    BY <1>0, <2>1, Finished DEF TypedSlot, Persons
  <2> QED
    BY <2>1, <2>2 DEF TypeOK, TypedSlot, Persons
<1> QED
  BY <1>2, <1>3, <1>4, <1>5, <1>6, <1>7, <1>8 DEF Register

\* The addresses are kept typed by what is done to them.
LEMMA TypeAddresses ==
    ASSUME D!TypeOK,
           \/ \E h \in Handlers, a \in Usernames : D!Ask(h, a)
           \/ \E h \in Handlers : D!Work(h)
           \/ D!Stop
           \/ UNCHANGED <<address, write>>
    PROVE  D!TypeOK'
<1> USE AddressAssumption, AccountsAssumption
<1>1. \A x \in Addresses, a \in Usernames, default \in BOOLEAN :
        D!Store(x, a, default) => address' \in [Addresses -> D!Address \cup {None}]
  BY DEF D!TypeOK, D!Store, D!Address
<1>2. ASSUME NEW h \in Handlers, NEW a \in Usernames, D!Ask(h, a)
      PROVE  D!TypeOK'
  <2>1. ASSUME NEW x \in Addresses \cup {None}, D!ResetFor(h, a, x)
        PROVE  D!TypeOK'
    <3>1. address' \in [Addresses -> D!Address \cup {None}]
      BY <2>1 DEF D!TypeOK, D!ResetFor, D!Reset, D!DefaultsOf, D!AddressesOf, D!Address
    <3>2. D!Write(a, x) \in [account : Usernames, address : Addresses \cup {None}]
      BY DEF D!Write
    <3> QED
      BY <2>1, <3>1, <3>2 DEF D!TypeOK, D!ResetFor
  <2>2. ASSUME NEW x \in Addresses,
               D!CreatePlain(a, x) \/ D!UpdatePlain(x) \/ D!Delete(x)
        PROVE  D!TypeOK'
    <3>1. address[x] # None => address[x].owner \in Usernames
      BY DEF D!TypeOK, D!Address
    <3> QED
      BY <1>1, <2>2, <3>1 DEF D!TypeOK, D!CreatePlain, D!UpdatePlain, D!Delete
  <2> QED
    BY <1>2, <2>1, <2>2 DEF D!Ask
<1>3. ASSUME NEW h \in Handlers, NEW x \in Addresses, D!CreateDefault(h, x)
      PROVE  D!TypeOK'
  <2>1. write[h].account \in Usernames
    BY <1>3 DEF D!TypeOK, D!CreateDefault, D!Busy
  <2> QED
    BY <1>1, <1>3, <2>1 DEF D!TypeOK, D!CreateDefault
<1>4. ASSUME NEW h \in Handlers, D!UpdateDefault(h) PROVE D!TypeOK'
  <2>1. write[h].address \in Addresses
    BY <1>4 DEF D!TypeOK, D!UpdateDefault, D!Busy
  <2>2. address[write[h].address] # None =>
            address[write[h].address].owner \in Usernames
    BY <2>1 DEF D!TypeOK, D!Address
  <2> QED
    BY <1>1, <1>4, <2>1, <2>2 DEF D!TypeOK, D!UpdateDefault
<1>5. CASE D!Stop
  BY <1>5 DEF D!TypeOK, D!Stop
<1>6. CASE UNCHANGED <<address, write>>
  BY <1>6 DEF D!TypeOK
<1> QED
  BY <1>2, <1>3, <1>4, <1>5, <1>6 DEF D!Work

\* Every step of the composition keeps the declared types.
LEMMA TypeStep == RegisteredTypeOK /\ [ANext]_avars => RegisteredTypeOK'
<1> SUFFICES ASSUME RegisteredTypeOK, [ANext]_avars PROVE RegisteredTypeOK'
  OBVIOUS
<1> USE RequestFields, AccountsAssumption DEF RegisteredTypeOK
<1>1. CASE Account
  <2>1. D!TypeOK'
    BY <1>1, TypeAddresses DEF Account
  <2>2. ASSUME NEW h \in Handlers, Register(h) PROVE TypeOK'
    BY <2>2, TypeRegister
  <2>3. ASSUME Administer PROVE TypeOK'
    <3>1. ASSUME NEW u \in Staff, CreateStaff(u) PROVE TypeOK'
      BY <3>1 DEF TypeOK, CreateStaff, Persons
    <3>2. ASSUME NEW code \in RoleCodes, CreateRole(code) PROVE TypeOK'
      BY <3>2 DEF TypeOK, CreateRole, Persons
    <3> QED
      BY <2>3, <3>1, <3>2 DEF Administer
  <2>4. ASSUME NEW n \in Usernames, Login(n) PROVE TypeOK'
    <3>1. (n \in role) \in BOOLEAN
      OBVIOUS
    <3>2. PICK granted \in BOOLEAN : session' = session \cup {<<n, granted>>}
      BY <2>4, <3>1 DEF Login
    <3> QED
      BY <2>4, <3>2 DEF TypeOK, Login, Accepts, Documents, Persons
  <2>5. ASSUME SessionEnds PROVE TypeOK'
    BY <2>5 DEF TypeOK, SessionEnds, Documents, Persons
  <2> QED
    BY <1>1, <2>1, <2>2, <2>3, <2>4, <2>5 DEF Account
<1>2. CASE Deliver
  <2>1. D!TypeOK'
    BY <1>2, TypeAddresses DEF Deliver
  <2> QED
    BY <1>2, <2>1 DEF Deliver, vars, TypeOK, Persons
<1>3. CASE Restart
  <2>1. D!TypeOK'
    BY <1>3, TypeAddresses DEF Restart
  <2>2. TypeOK'
    BY <1>3 DEF Restart, TypeOK, Documents, Persons
  <2> QED
    BY <2>1, <2>2
<1>4. CASE UNCHANGED avars
  <2>1. D!TypeOK'
    BY <1>4, TypeAddresses DEF avars
  <2> QED
    BY <1>4, <2>1 DEF avars, vars, TypeOK, Persons
<1> QED
  BY <1>1, <1>2, <1>3, <1>4 DEF ANext

LEMMA TypeInit == AInit => RegisteredTypeOK
BY RequestFields
   DEF AInit, Init, D!Init, RegisteredTypeOK, TypeOK, D!TypeOK, Persons

\* The steps with history are steps of the composition.
LEMMA PlainStep == [HNext]_hvars => [ANext]_avars
BY DEF HNext, ANext, hvars

\* Every document and every request in progress is well typed, and an account
\* is of a person whose document is stored (auth.controller.ts, the pipes of
\* auth, delivery_address.controller.ts).
THEOREM TypeCorrect == HSpec => []RegisteredTypeOK
<1>1. HInit => RegisteredTypeOK
  BY TypeInit DEF HInit
<1>2. RegisteredTypeOK /\ [HNext]_hvars => RegisteredTypeOK'
  BY PlainStep, TypeStep
<1> QED
  BY <1>1, <1>2, PTL DEF HSpec

-----------------------------------------------------------------------------
(* What a step can be, as far as registrations are concerned *)

Same(h) ==
    /\ req'[h].user = req[h].user /\ req'[h].name = req[h].name
    /\ req'[h].public = req[h].public

Starts(h) ==
    /\ req[h].pc = "idle" /\ req'[h].pc = "username"
    /\ req'[h].user \in Staff => AccountsOf(req'[h].user) = {}
    /\ UNCHANGED <<customer, account, role>>

Moves(h) ==
    /\ Same(h)
    /\ \/ req[h].pc = "username" /\ req[h].public /\ req'[h].pc = "customer"
       \/ req[h].pc = "username" /\ ~req[h].public /\ req'[h].pc = "account"
       \/ req[h].pc = "lookup" /\ req'[h].pc = "account"
    /\ UNCHANGED <<customer, account, role>>

Ends(h) ==
    /\ req[h].pc \in {"username", "customer", "lookup", "account"}
    /\ req'[h] = Idle
    /\ UNCHANGED <<customer, account, role>>

Enrols(h) ==
    /\ Same(h) /\ req[h].pc = "customer" /\ req'[h].pc = "lookup"
    /\ req[h].user \notin customer /\ customer' = customer \cup {req[h].user}
    /\ UNCHANGED <<account, role>>

Opens(h) ==
    /\ Same(h) /\ req[h].pc = "account" /\ req'[h].pc = "role"
    /\ account[req[h].name] = None
    /\ account' = [account EXCEPT ![req[h].name] = req[h].user]
    /\ UNCHANGED <<customer, role>>

Grants(h) ==
    /\ req[h].pc = "role" /\ req'[h] = Idle
    /\ role' = role \cup {req[h].name}
    /\ UNCHANGED <<customer, account>>

Serves(h) ==
    /\ \A g \in Handlers : g # h => req'[g] = req[g]
    /\ Starts(h) \/ Moves(h) \/ Ends(h) \/ Enrols(h) \/ Opens(h) \/ Grants(h)

LEMMA RegisterShape ==
    ASSUME TypeOK, NEW h \in Handlers, Register(h)
    PROVE  Serves(h)
<1> USE RequestFields, AccountsAssumption
<1>1. ASSUME NEW c \in Customers, NEW n \in Usernames, PhoneFree(h, c, n)
      PROVE  Serves(h)
  <2>1. /\ req[h].pc = "idle" /\ req'[h].pc = "username" /\ req'[h].user = c
        /\ \A g \in Handlers : g # h => req'[g] = req[g]
    BY <1>1, Begun DEF PhoneFree, People
  <2> QED
    BY <1>1, <2>1 DEF Serves, Starts, PhoneFree, Documents
<1>2. ASSUME NEW u \in People, NEW n \in Usernames, UserChecked(h, u, n)
      PROVE  Serves(h)
  <2>1. /\ req[h].pc = "idle" /\ req'[h].pc = "username" /\ req'[h].user = u
        /\ \A g \in Handlers : g # h => req'[g] = req[g]
    BY <1>2, Begun DEF UserChecked, People
  <2>2. u \in Staff => AccountsOf(u) = {}
    BY <1>2 DEF UserChecked, UserAccepted, TypeOK
  <2> QED
    BY <1>2, <2>1, <2>2 DEF Serves, Starts, UserChecked, Documents
<1>3. CASE CheckUsername(h)
  BY <1>3, GoneTo, Finished
     DEF CheckUsername, At, Serves, Moves, Ends, Same, Documents, Steps, TypeOK
<1>4. CASE StoreCustomer(h)
  BY <1>4, GoneTo, Finished
     DEF StoreCustomer, At, Serves, Enrols, Ends, Same, PhoneTaken, Steps
<1>5. CASE FindRole(h)
  BY <1>5, GoneTo, Finished
     DEF FindRole, At, Serves, Moves, Ends, Same, Documents, Steps
<1>6. CASE StoreAccount(h)
  BY <1>6, GoneTo, Finished DEF StoreAccount, At, Serves, Opens, Ends, Same, Steps
<1>7. CASE StoreRole(h)
  BY <1>7, Finished DEF StoreRole, At, Serves, Grants
<1> QED
  BY <1>1, <1>2, <1>3, <1>4, <1>5, <1>6, <1>7 DEF Register

\* A step that does not touch registrations.
Elsewhere ==
    /\ UNCHANGED <<customer, account, role, req, cut, own, stranded>>
    /\ doubled \subseteq doubled'

Stops ==
    /\ UNCHANGED <<customer, account, role>>
    /\ \A h \in Handlers : req'[h] = Idle
    /\ RecordAccounts
    /\ cut' = cut \cup {n \in Usernames :
            \E h \in Handlers : At(h, "role") /\ req[h].name = n}

LEMMA StepShape ==
    ASSUME TypeOK, [HNext]_hvars
    PROVE  \/ \E h \in Handlers : Serves(h) /\ RecordAccounts /\ UNCHANGED cut
           \/ Elsewhere \/ Stops
<1>1. ASSUME NEW h \in Handlers, Register(h), RecordAccounts, UNCHANGED cut
      PROVE  Serves(h) /\ RecordAccounts /\ UNCHANGED cut
  BY <1>1, RegisterShape
<1>2. ASSUME UNCHANGED <<customer, account, role, req, cut>>, RecordAccounts
      PROVE  Elsewhere
  BY <1>2 DEF Elsewhere, RecordAccounts, Stored, Strands, At
<1>3. CASE Account /\ RecordAccounts /\ UNCHANGED cut
  <2>1. (\E h \in Handlers : Register(h)) \/ UNCHANGED <<customer, account, role, req>>
    BY <1>3 DEF Account, Administer, CreateStaff, CreateRole, Login, SessionEnds, Documents
  <2> QED
    BY <1>1, <1>2, <1>3, <2>1
<1>4. CASE Deliver /\ RecordAccounts /\ UNCHANGED cut
  BY <1>2, <1>4 DEF Deliver, vars
<1>5. CASE /\ Restart /\ RecordAccounts
           /\ cut' = cut \cup {n \in Usernames :
                \E h \in Handlers : At(h, "role") /\ req[h].name = n}
  BY <1>5 DEF Restart, Stops, Documents
<1>6. CASE UNCHANGED hvars
  BY <1>6 DEF hvars, avars, vars, history, Elsewhere
<1> QED
  BY <1>3, <1>4, <1>5, <1>6 DEF HNext

-----------------------------------------------------------------------------
(* Roles *)

LEMMA RolesStep ==
    ASSUME TypeOK, AccountsHaveRoles, [HNext]_hvars
    PROVE  AccountsHaveRoles'
<1> USE RequestFields, AccountsAssumption
<1>1. \A g \in Handlers : req[g].pc = "account" =>
            req[g].name \in Usernames /\ req[g].user # None
  BY DEF TypeOK, People
<1>2. ASSUME NEW h \in Handlers, Serves(h), UNCHANGED cut
      PROVE  AccountsHaveRoles'
  <2>1. CASE Opens(h)
    <3>1. \A n \in Usernames : n # req[h].name => account'[n] = account[n]
      BY <2>1 DEF Opens, TypeOK
    <3>2. \A g \in Handlers : At(g, "role") => req'[g] = req[g]
      BY <1>2, <2>1 DEF Opens, Serves, At
    <3>3. At(h, "role")' /\ req'[h].name = req[h].name
      BY <2>1 DEF Opens, Same, At
    <3> QED
      BY <1>2, <2>1, <3>1, <3>2, <3>3 DEF AccountsHaveRoles, Opens, At
  <2>2. CASE Grants(h)
    BY <1>2, <2>2 DEF AccountsHaveRoles, Grants, Serves, At
  <2>3. CASE Starts(h) \/ Moves(h) \/ Ends(h) \/ Enrols(h)
    BY <1>2, <2>3 DEF AccountsHaveRoles, Starts, Moves, Ends, Enrols, Serves, At
  <2> QED
    BY <1>2, <2>1, <2>2, <2>3 DEF Serves
<1>3. CASE Elsewhere
  BY <1>3 DEF AccountsHaveRoles, Elsewhere, At
<1>4. CASE Stops
  BY <1>4 DEF AccountsHaveRoles, Stops
<1> QED
  BY <1>2, <1>3, <1>4, StepShape

\* An account has its role, or the write nobody awaits is still in progress,
\* unless a crash came first (auth.controller.ts:53-56, 98-103).
THEOREM RolesFollow == HSpec => []AccountsHaveRoles
<1>1. HInit => AccountsHaveRoles
  BY DEF HInit, AInit, Init, AccountsHaveRoles
<1>2. RegisteredTypeOK /\ AccountsHaveRoles /\ [HNext]_hvars => AccountsHaveRoles'
  BY RolesStep DEF RegisteredTypeOK
<1> QED
  BY <1>1, <1>2, TypeCorrect, PTL DEF HSpec

\* Inductive: a token with a role, a default address about to be written and an
\* address belong to accounts whose role is stored.
RolesFirst ==
    /\ \A n \in Usernames : <<n, TRUE>> \in session => n \in role
    /\ \A h \in Handlers : D!Busy(h) => write[h].account \in role
    /\ OwnersHaveRoles

LEMMA FirstStep ==
    ASSUME RegisteredTypeOK, RolesFirst, [ANext]_avars
    PROVE  RolesFirst'
<1> USE AddressAssumption, AccountsAssumption DEF RegisteredTypeOK
<1>1. CASE Account
  <2>1. role \subseteq role' /\ UNCHANGED <<address, write>>
    <3>1. \A h \in Handlers : Register(h) => role \subseteq role'
      BY RegisterShape DEF Serves, Starts, Moves, Ends, Enrols, Opens, Grants
    <3> QED
      BY <1>1, <3>1 DEF Account, Administer, CreateStaff, CreateRole, Login,
                        SessionEnds, Documents
  <2>2. \A n \in Usernames : <<n, TRUE>> \in session' => n \in role'
    <3>1. ASSUME NEW m \in Usernames, Login(m)
          PROVE  \A n \in Usernames : <<n, TRUE>> \in session' => n \in role'
      <4>1. ASSUME NEW n \in Usernames, <<n, TRUE>> = <<m, m \in role>>
            PROVE  n \in role
        BY <4>1
      <4> QED
        BY <3>1, <4>1 DEF Login, RolesFirst, Documents
    <3>2. \A h \in Handlers : Register(h) => session' = session
      BY DEF Register, PhoneFree, UserChecked, CheckUsername, StoreCustomer,
             FindRole, StoreAccount, StoreRole
    <3>3. (SessionEnds \/ Administer) => session' \subseteq session
      BY DEF SessionEnds, Administer, CreateStaff, CreateRole
    <3> QED
      BY <1>1, <2>1, <3>1, <3>2, <3>3 DEF Account, RolesFirst
  <2> QED
    BY <2>1, <2>2 DEF RolesFirst, OwnersHaveRoles, D!Busy
<1>2. CASE Deliver
  <2>1. UNCHANGED <<role, session>>
    BY <1>2 DEF Deliver, vars
  <2>2. ASSUME NEW h \in Handlers, D!Work(h)
        PROVE  OwnersHaveRoles' /\ \A g \in Handlers : D!Busy(g)' => write'[g] = write[g]
    <3>1. ASSUME NEW x \in Addresses, D!CreateDefault(h, x) PROVE OwnersHaveRoles'
      BY <2>1, <3>1 DEF RolesFirst, OwnersHaveRoles, D!CreateDefault, D!Store, D!TypeOK
    <3>2. ASSUME D!UpdateDefault(h) PROVE OwnersHaveRoles'
      BY <2>1, <3>2 DEF RolesFirst, OwnersHaveRoles, D!UpdateDefault, D!Store, D!TypeOK
    <3> QED
      BY <2>2, <3>1, <3>2 DEF D!Work, D!CreateDefault, D!UpdateDefault, D!Busy, D!TypeOK
  <2>3. ASSUME NEW h \in Handlers, NEW n \in Usernames, Allowed(n), D!Ask(h, n)
        PROVE  /\ OwnersHaveRoles'
               /\ \A g \in Handlers : D!Busy(g)' =>
                    write'[g] = write[g] \/ write'[g].account = n
    <3>1. n \in role
      BY <2>3 DEF Allowed, RolesFirst
    <3>2. ASSUME NEW x \in Addresses \cup {None}, D!ResetFor(h, n, x)
          PROVE  /\ OwnersHaveRoles'
                 /\ \A g \in Handlers : write'[g] = write[g] \/ write'[g].account = n
      BY <2>1, <3>2 DEF RolesFirst, OwnersHaveRoles, D!ResetFor, D!Reset, D!Write,
                        D!DefaultsOf, D!AddressesOf, D!TypeOK, D!Address
    <3>3. ASSUME NEW x \in Addresses,
                 D!CreatePlain(n, x) \/ D!UpdatePlain(x) \/ D!Delete(x)
          PROVE  OwnersHaveRoles' /\ write' = write
      BY <2>1, <3>1, <3>3 DEF RolesFirst, OwnersHaveRoles, D!CreatePlain, D!UpdatePlain,
                              D!Delete, D!Store, D!TypeOK
    <3> QED
      BY <2>3, <3>2, <3>3 DEF D!Ask
  <2> QED
    BY <1>2, <2>1, <2>2, <2>3 DEF Deliver, RolesFirst, D!Busy, Allowed
<1>3. CASE Restart
  BY <1>3 DEF Restart, D!Stop, D!Busy, Documents, RolesFirst, OwnersHaveRoles
<1>4. CASE UNCHANGED avars
  BY <1>4 DEF avars, vars, RolesFirst, OwnersHaveRoles, D!Busy
<1> QED
  BY <1>1, <1>2, <1>3, <1>4 DEF ANext

\* Only accounts whose role is stored have addresses: the role reaches the guard
\* of the address routes through the token issued at login (auth.service.ts:69-79,
\* role.guard.ts).
THEOREM OwnersAllowed == HSpec => []OwnersHaveRoles
<1>1. HInit => RolesFirst
  BY DEF HInit, AInit, Init, D!Init, RolesFirst, OwnersHaveRoles, D!Busy
<1>2. RegisteredTypeOK /\ RolesFirst /\ [HNext]_hvars => RolesFirst'
  BY FirstStep, PlainStep
<1>3. RolesFirst => OwnersHaveRoles
  BY DEF RolesFirst
<1> QED
  BY <1>1, <1>2, <1>3, TypeCorrect, PTL DEF HSpec

-----------------------------------------------------------------------------
(* Customers *)

\* A registration that has stored its customer and not yet the account.
Enrolling(h, c) ==
    req[h].pc \in {"lookup", "account"} /\ req[h].public /\ req[h].user = c

\* Inductive: a stored customer has an account, or its registration is on the
\* way to it, not just any registration for that person.
Accounted ==
    \A c \in customer \ stranded :
        AccountsOf(c) # {} \/ \E h \in Handlers : Enrolling(h, c)

LEMMA AccountedStep ==
    ASSUME TypeOK, Accounted, [HNext]_hvars
    PROVE  Accounted'
<1> USE RequestFields, AccountsAssumption
<1>1. ASSUME NEW h \in Handlers, Serves(h), RecordAccounts
      PROVE  Accounted'
  <2>1. stranded \subseteq stranded'
    BY <1>1 DEF RecordAccounts
  <2>2. \A c \in Customers, g \in Handlers :
            Enrolling(g, c) /\ g # h => Enrolling(g, c)'
    BY <1>1 DEF Serves, Enrolling
  <2>3. CASE Starts(h) \/ Grants(h)
    BY <1>1, <2>1, <2>2, <2>3
       DEF Accounted, Starts, Grants, Enrolling, AccountsOf, TypeOK
  <2>4. CASE Moves(h)
    <3>1. \A c \in Customers : Enrolling(h, c) => Enrolling(h, c)'
      BY <2>4 DEF Moves, Same, Enrolling
    <3> QED
      BY <2>1, <2>2, <2>4, <3>1 DEF Accounted, Moves, AccountsOf, TypeOK
  <2>5. CASE Ends(h)
    <3>1. \A c \in Customers : Enrolling(h, c) => c \in stranded'
      BY <1>1, <2>5 DEF Ends, RecordAccounts, Strands, Enrolling
    <3> QED
      BY <2>1, <2>2, <2>5, <3>1 DEF Accounted, Ends, AccountsOf, TypeOK
  <2>6. CASE Enrols(h)
    <3>1. \A c \in Customers : c = req[h].user => Enrolling(h, c)'
      BY <2>6 DEF Enrols, Same, Enrolling, TypeOK
    <3>2. \A c \in Customers : ~Enrolling(h, c)
      BY <2>6 DEF Enrols, Enrolling
    <3> QED
      BY <2>1, <2>2, <2>6, <3>1, <3>2 DEF Accounted, Enrols, AccountsOf, TypeOK
  <2>7. CASE Opens(h)
    <3>1. req[h].name \in Usernames /\ account'[req[h].name] = req[h].user
      BY <2>7 DEF Opens, TypeOK
    <3>2. \A n \in Usernames : account[n] # None => account'[n] = account[n]
      BY <2>7 DEF Opens, TypeOK
    <3>3. \A c \in Customers : Enrolling(h, c) => AccountsOf(c)' # {}
      BY <3>1 DEF Enrolling, AccountsOf
    <3>4. \A c \in Customers : AccountsOf(c) # {} => AccountsOf(c)' # {}
      BY <3>2 DEF AccountsOf, People
    <3> QED
      BY <2>1, <2>2, <2>7, <3>3, <3>4 DEF Accounted, Opens, TypeOK
  <2> QED
    BY <1>1, <2>3, <2>4, <2>5, <2>6, <2>7 DEF Serves
<1>2. CASE Elsewhere
  BY <1>2 DEF Accounted, Elsewhere, Enrolling, AccountsOf
<1>3. CASE Stops
  <2>1. \A c \in Customers, h \in Handlers : Enrolling(h, c) => c \in stranded'
    BY <1>3 DEF Stops, RecordAccounts, Strands, Enrolling
  <2>2. stranded \subseteq stranded'
    BY <1>3 DEF Stops, RecordAccounts
  <2> QED
    BY <1>3, <2>1, <2>2 DEF Accounted, Stops, AccountsOf, TypeOK
<1> QED
  BY <1>1, <1>2, <1>3, StepShape

\* A stored customer has an account or its registration is still at it, unless
\* that registration ended there: by a crash, without a role, or by losing the
\* user name to another (auth.controller.ts:86-105).
THEOREM CustomersAccounted == HSpec => []CustomersHaveAccounts
<1>1. HInit => Accounted
  BY DEF HInit, AInit, Init, Accounted
<1>2. RegisteredTypeOK /\ Accounted /\ [HNext]_hvars => Accounted'
  BY AccountedStep DEF RegisteredTypeOK
<1>3. Accounted => CustomersHaveAccounts
  BY DEF Accounted, CustomersHaveAccounts, Enrolling
<1> QED
  BY <1>1, <1>2, <1>3, TypeCorrect, PTL DEF HSpec

\* Inductive: of the registrations of a customer one at most is past the unique
\* index on phone, and none once the customer has the account it made.
OwnOnce ==
    /\ \A n \in own : n \in Usernames /\ account[n] \in customer
    /\ \A h, g \in Handlers, c \in Customers :
        Enrolling(h, c) /\ Enrolling(g, c) => h = g
    /\ \A h \in Handlers, c \in Customers, n \in own :
        Enrolling(h, c) => account[n] # c
    /\ \A n, m \in own : account[n] = account[m] => n = m

LEMMA OwnOnceStep ==
    ASSUME TypeOK, OwnOnce, [HNext]_hvars
    PROVE  OwnOnce'
<1> USE RequestFields, AccountsAssumption
<1>0. \A c \in Customers, g \in Handlers : Enrolling(g, c) => c \in customer
  BY DEF Enrolling, TypeOK, Persons
<1>1. ASSUME NEW h \in Handlers, Serves(h), RecordAccounts
      PROVE  OwnOnce'
  <2>1. \A c \in Customers, g \in Handlers : g # h => (Enrolling(g, c)' <=> Enrolling(g, c))
    BY <1>1 DEF Serves, Enrolling
  <2>2. \A g \in Handlers : Stored(g) # {} => g = h /\ Opens(h)
    BY <1>1 DEF Stored, At, Serves, Starts, Moves, Ends, Enrols, Grants
  <2>3. CASE Starts(h) \/ Ends(h) \/ Grants(h)
    <3>1. own' = own
      BY <1>1, <2>2, <2>3 DEF RecordAccounts, Starts, Ends, Grants, Opens
    <3>2. \A c \in Customers : ~Enrolling(h, c)'
      BY <2>3 DEF Starts, Ends, Grants, Enrolling
    <3> QED
      BY <2>1, <2>3, <3>1, <3>2 DEF OwnOnce, Starts, Ends, Grants
  <2>4. CASE Moves(h)
    <3>1. own' = own
      BY <1>1, <2>2, <2>4 DEF RecordAccounts, Moves, Opens, Stored, At
    <3>2. \A c \in Customers : Enrolling(h, c)' => Enrolling(h, c)
      BY <2>4 DEF Moves, Same, Enrolling
    <3> QED
      BY <2>1, <2>4, <3>1, <3>2 DEF OwnOnce, Moves
  <2>5. CASE Enrols(h)
    <3>1. own' = own
      BY <1>1, <2>2, <2>5 DEF RecordAccounts, Enrols, Opens
    <3>2. \A c \in Customers : Enrolling(h, c)' => c = req[h].user /\ c \notin customer
      BY <2>5 DEF Enrols, Same, Enrolling
    <3> QED
      BY <1>0, <2>1, <2>5, <3>1, <3>2 DEF OwnOnce, Enrols
  <2>6. CASE Opens(h)
    <3> DEFINE n == req[h].name
    <3>1. n \in Usernames /\ account'[n] = req[h].user /\ customer' = customer
      BY <2>6 DEF Opens, TypeOK
    <3>2. \A m \in own : m # n /\ account'[m] = account[m]
      <4>1. \A m \in own : account[m] # None
        BY DEF OwnOnce, TypeOK, People
      <4> QED
        BY <2>6, <4>1 DEF Opens, OwnOnce, TypeOK
    <3>3. \A c \in Customers : ~Enrolling(h, c)'
      BY <2>6 DEF Opens, Enrolling
    <3>4. CASE req[h].public
      <4>1. own' = own \cup {n}
        <5>1. Stored(h) = {n}
          BY <2>6, <3>1 DEF Stored, Opens, At
        <5>2. UNION {Stored(g) : g \in {f \in Handlers : req[f].public}} = {n}
          BY <2>2, <3>4, <5>1
        <5> QED
          BY <1>1, <5>2 DEF RecordAccounts
      <4>2. req[h].user \in Customers
        BY <3>4 DEF TypeOK
      <4>3. Enrolling(h, req[h].user) /\ req[h].user \in customer
        BY <1>0, <2>6, <3>4, <4>2 DEF Opens, Enrolling
      <4> QED
        BY <2>1, <3>1, <3>2, <3>3, <4>1, <4>2, <4>3 DEF OwnOnce
    <3>5. CASE ~req[h].public
      <4>1. own' = own
        BY <1>1, <2>2, <3>5 DEF RecordAccounts
      <4> QED
        BY <2>1, <3>1, <3>2, <3>3, <4>1 DEF OwnOnce
    <3> QED
      BY <3>4, <3>5
  <2> QED
    BY <1>1, <2>3, <2>4, <2>5, <2>6 DEF Serves
<1>2. CASE Elsewhere
  BY <1>2 DEF OwnOnce, Elsewhere, Enrolling
<1>3. CASE Stops
  <2>1. own' = own
    BY <1>3 DEF Stops, RecordAccounts, Stored
  <2>2. \A c \in Customers, h \in Handlers : ~Enrolling(h, c)'
    BY <1>3 DEF Stops, Enrolling
  <2> QED
    BY <1>3, <2>1, <2>2 DEF OwnOnce, Stops
<1> QED
  BY <1>1, <1>2, <1>3, StepShape

\* At most one thing is a set with one element at most.
LEMMA AtMostOne ==
    ASSUME NEW S, \A x, y \in S : x = y
    PROVE  Cardinality(S) <= 1
<1>1. CASE S = {}
  BY <1>1, FS_EmptySet
<1>2. ASSUME NEW x \in S PROVE Cardinality(S) <= 1
  <2>1. S = {x}
    BY <1>2
  <2> QED
    BY <2>1, FS_Singleton
<1> QED
  BY <1>1, <1>2

\* A customer registers once, whatever overlaps: the index on phone holds where
\* the check before it does not (auth.controller.ts:70-86, customer.model.ts:20).
THEOREM CustomersRegisterOnce == HSpec => []OneOwnAccount
<1>1. HInit => OwnOnce
  BY RequestFields DEF HInit, AInit, Init, OwnOnce, Enrolling
<1>2. RegisteredTypeOK /\ OwnOnce /\ [HNext]_hvars => OwnOnce'
  BY OwnOnceStep DEF RegisteredTypeOK
<1>3. OwnOnce => OneOwnAccount
  <2> SUFFICES ASSUME OwnOnce, NEW c \in Customers
               PROVE  Cardinality(AccountsOf(c) \cap own) <= 1
    BY DEF OneOwnAccount
  <2>1. \A n, m \in AccountsOf(c) \cap own : n = m
    BY DEF OwnOnce, AccountsOf
  <2> QED
    BY <2>1, AtMostOne
<1> QED
  BY <1>1, <1>2, <1>3, TypeCorrect, PTL DEF HSpec

-----------------------------------------------------------------------------
(* Staff *)

\* A registration for u that was checked and has not stored its account.
Waiting(h, u) == req[h].pc \in Unstored /\ req[h].user = u

\* Inductive: while no two registrations of a staff member were checked together,
\* the one in progress stands for the absence of an account.
StaffOnce ==
    \A u \in Staff \ doubled :
        /\ \A h, g \in Handlers : Waiting(h, u) /\ Waiting(g, u) => h = g
        /\ \A h \in Handlers : Waiting(h, u) => AccountsOf(u) = {}
        /\ \A n, m \in AccountsOf(u) : n = m

LEMMA StaffOnceStep ==
    ASSUME TypeOK, StaffOnce, [HNext]_hvars
    PROVE  StaffOnce'
<1> USE RequestFields, AccountsAssumption
<1>1. ASSUME NEW h \in Handlers, Serves(h), RecordAccounts
      PROVE  StaffOnce'
  <2> SUFFICES ASSUME NEW u \in Staff \ doubled'
               PROVE  /\ \A f, g \in Handlers : Waiting(f, u)' /\ Waiting(g, u)' => f = g
                      /\ \A g \in Handlers : Waiting(g, u)' => AccountsOf(u)' = {}
                      /\ \A n, m \in AccountsOf(u)' : n = m
    BY DEF StaffOnce
  <2>1. u \in Staff \ doubled /\ ~Rivals(u)
    BY <1>1 DEF RecordAccounts
  <2>2. \A f, g \in Handlers : Waiting(f, u)' /\ Waiting(g, u)' => f = g
    BY <2>1 DEF Rivals, Waiting
  <2>3. \A g \in Handlers : g # h => (Waiting(g, u)' <=> Waiting(g, u))
    BY <1>1 DEF Serves, Waiting
  <2>4. CASE Starts(h)
    BY <2>1, <2>2, <2>3, <2>4 DEF StaffOnce, Starts, Waiting, AccountsOf
  <2>5. CASE Moves(h)
    <3>1. Waiting(h, u)' => Waiting(h, u)
      BY <2>1, <2>5 DEF Moves, Same, Waiting, Unstored, TypeOK
    <3> QED
      BY <2>1, <2>2, <2>3, <2>5, <3>1 DEF StaffOnce, Moves, AccountsOf
  <2>6. CASE Ends(h) \/ Enrols(h) \/ Grants(h)
    <3>1. ~Waiting(h, u)'
      BY <2>6 DEF Ends, Enrols, Grants, Waiting, Unstored
    <3> QED
      BY <2>1, <2>2, <2>3, <2>6, <3>1 DEF StaffOnce, Ends, Enrols, Grants, AccountsOf
  <2>7. CASE Opens(h)
    <3>1. ~Waiting(h, u)'
      BY <2>7 DEF Opens, Waiting, Unstored
    <3>2. \A n \in Usernames : account'[n] =
                IF n = req[h].name THEN req[h].user ELSE account[n]
      BY <2>7 DEF Opens, TypeOK
    <3>3. CASE req[h].user = u
      <4>1. Waiting(h, u)
        BY <2>7, <3>3 DEF Opens, Waiting, Unstored
      <4>2. AccountsOf(u) = {} /\ \A g \in Handlers : g # h => ~Waiting(g, u)
        BY <2>1, <4>1 DEF StaffOnce
      <4>3. \A n \in AccountsOf(u)' : n = req[h].name
        BY <3>2, <4>2 DEF AccountsOf
      <4> QED
        BY <2>2, <2>3, <3>1, <4>2, <4>3
    <3>4. CASE req[h].user # u
      <4>1. account[req[h].name] = None /\ u # None
        BY <2>1, <2>7 DEF Opens, People
      <4>2. AccountsOf(u)' = AccountsOf(u)
        BY <3>2, <3>4, <4>1 DEF AccountsOf
      <4> QED
        BY <2>1, <2>2, <2>3, <3>1, <4>2 DEF StaffOnce
    <3> QED
      BY <3>3, <3>4
  <2> QED
    BY <1>1, <2>4, <2>5, <2>6, <2>7 DEF Serves
<1>2. CASE Elsewhere
  BY <1>2 DEF StaffOnce, Elsewhere, Waiting, AccountsOf
<1>3. CASE Stops
  <2>1. \A u \in Staff, h \in Handlers : ~Waiting(h, u)'
    BY <1>3 DEF Stops, Waiting, Unstored
  <2>2. doubled \subseteq doubled'
    BY <1>3 DEF Stops, RecordAccounts
  <2> QED
    BY <1>3, <2>1, <2>2 DEF StaffOnce, Stops, AccountsOf
<1> QED
  BY <1>1, <1>2, <1>3, StepShape

\* A staff member has one account at most, unless two registrations for that
\* person were checked side by side (register-account-validate.pipe.ts:40-45).
THEOREM StaffHaveOneAccount == HSpec => []OneAccountPerStaff
<1>1. HInit => StaffOnce
  BY RequestFields, AccountsAssumption
     DEF HInit, AInit, Init, StaffOnce, Waiting, Unstored, AccountsOf, People
<1>2. RegisteredTypeOK /\ StaffOnce /\ [HNext]_hvars => StaffOnce'
  BY StaffOnceStep DEF RegisteredTypeOK
<1>3. StaffOnce => OneAccountPerStaff
  BY AtMostOne DEF StaffOnce, OneAccountPerStaff
<1> QED
  BY <1>1, <1>2, <1>3, TypeCorrect, PTL DEF HSpec

-----------------------------------------------------------------------------
(* Default addresses *)

\* The default address of n is settled, or one request is about to write it.
Settled(n) ==
    /\ \A h, g \in Pending(n) : h = g
    /\ Pending(n) # {} => D!DefaultsOf(n) = {}
    /\ \A x, y \in D!DefaultsOf(n) : x = y
    /\ (n \notin missed /\ Pending(n) = {}) =>
            (n \in chosen <=> D!DefaultsOf(n) # {})

\* Inductive: so it is for every account whose default nobody else touched.
DefaultsSettled == \A n \in Usernames \ contested : Settled(n)

\* The step does nothing to the defaults of n.
Untouched(n) == Pending(n)' = Pending(n) /\ D!DefaultsOf(n)' = D!DefaultsOf(n)

LEMMA PendingFacts ==
    ASSUME D!TypeOK
    PROVE  /\ \A h \in Handlers : D!Busy(h) => write[h].account \in Usernames
           /\ \A n \in Usernames : \A h \in Pending(n) : D!Busy(h)
           /\ D!Idle.account = None
BY AccountsAssumption DEF D!TypeOK, D!Busy, D!Idle, D!Write, Pending

LEMMA UntouchedSettled ==
    ASSUME NEW n \in Usernames, D!TypeOK, Settled(n), Untouched(n), RecordAddresses
    PROVE  Settled(n)'
<1>1. ~Sets(n)
  <2> SUFFICES ASSUME NEW h \in Handlers, write[h].account = n, write'[h] = D!Idle
               PROVE  FALSE
    BY DEF Sets
  <2>1. h \in Pending(n)'
    BY DEF Untouched, Pending
  <2> QED
    BY <2>1, PendingFacts, AccountsAssumption DEF Pending
<1>2. ~Loses(n)
  BY DEF Loses, Untouched
<1>3. n \in chosen' <=> n \in chosen
  BY <1>1, <1>2 DEF RecordAddresses
<1>4. missed \subseteq missed'
  BY DEF RecordAddresses
<1> QED
  BY <1>3, <1>4 DEF Settled, Untouched

\* Only defaults of n are taken away, and no default write is made.
LEMMA FewerSettled ==
    ASSUME NEW n \in Usernames, D!TypeOK, Settled(n), write' = write,
           D!DefaultsOf(n)' \subseteq D!DefaultsOf(n), RecordAddresses
    PROVE  Settled(n)'
<1>1. Pending(n)' = Pending(n)
  BY DEF Pending
<1>2. ~Sets(n)
  BY PendingFacts, AccountsAssumption DEF Sets
<1>3. n \in chosen' <=> (n \in chosen /\ ~Loses(n))
  BY <1>2 DEF RecordAddresses
<1>4. missed \subseteq missed'
  BY DEF RecordAddresses
<1> QED
  BY <1>1, <1>3, <1>4 DEF Settled, Loses

\* Slot h sets out to write a default of n, which has none now.
LEMMA AskedSettled ==
    ASSUME NEW n \in Usernames, NEW h \in Handlers, h \in Pending(n)',
           D!DefaultsOf(n)' = {}, RecordAddresses, n \notin contested'
    PROVE  Settled(n)'
<1>1. \A f, g \in Pending(n)' : f = g
  BY DEF RecordAddresses
<1> QED
  BY <1>1 DEF Settled

\* Slot h writes x, the only default of n.
LEMMA WrittenSettled ==
    ASSUME NEW n \in Usernames, NEW h \in Handlers, NEW x \in Addresses,
           write[h].account = n, write'[h] = D!Idle, Pending(n)' = {},
           D!DefaultsOf(n)' = {x}, RecordAddresses
    PROVE  Settled(n)'
<1>1. Sets(n)
  BY DEF Sets
<1>2. n \in chosen'
  BY <1>1 DEF RecordAddresses
<1> QED
  BY <1>2 DEF Settled

\* A slot that is done leaves the slots of the other accounts alone.
LEMMA SlotDone ==
    ASSUME D!TypeOK, NEW h \in Handlers, NEW a \in Usernames,
           write[h].account = a, write' = [write EXCEPT ![h] = D!Idle]
    PROVE  /\ write'[h] = D!Idle
           /\ \A g \in Handlers : g # h => write'[g] = write[g]
           /\ Pending(a)' = Pending(a) \ {h} /\ h \in Pending(a)
           /\ \A n \in Usernames : n # a => Pending(n)' = Pending(n)
<1>1. /\ write'[h] = D!Idle /\ D!Idle.account = None
      /\ \A g \in Handlers : g # h => write'[g] = write[g]
  BY DEF D!TypeOK, D!Idle, D!Write
<1> QED
  BY <1>1, AccountsAssumption DEF Pending

\* The request of n ended and left it without a default.
LEMMA MissedOne ==
    ASSUME NEW n \in Usernames, Settled(n), Pending(n) # {}, Pending(n)' = {},
           D!DefaultsOf(n)' = D!DefaultsOf(n), RecordAddresses
    PROVE  Settled(n)'
<1>1. D!DefaultsOf(n)' = {}
  BY DEF Settled
<1>2. n \in missed'
  BY <1>1 DEF RecordAddresses
<1> QED
  BY <1>1, <1>2 DEF Settled

\* Account a makes address x of account b the default of b: the only one, unless
\* a is another account.
LEMMA StoredSettled ==
    ASSUME D!TypeOK, DefaultsSettled, NEW h \in Handlers, NEW a \in Usernames,
           NEW b \in Usernames, NEW x \in Addresses, write[h].account = a,
           write' = [write EXCEPT ![h] = D!Idle], D!Store(x, b, TRUE),
           \/ address[x] # None /\ address[x].owner = b /\ write[h].address = x
           \/ address[x] = None /\ b = a,
           RecordAddresses
    PROVE  DefaultsSettled'
<1> USE AddressAssumption, AccountsAssumption
<1>1. /\ address'[x] = [owner |-> b, isDefault |-> TRUE]
      /\ address'[x] # None
      /\ \A y \in Addresses : y # x => address'[y] = address[y]
  <2>1. [owner |-> b, isDefault |-> TRUE] \in D!Address
    BY DEF D!Address
  <2> QED
    BY <2>1 DEF D!Store, D!TypeOK
<1>0. /\ write'[h] = D!Idle /\ Pending(a)' = Pending(a) \ {h} /\ h \in Pending(a)
      /\ \A n \in Usernames : n # a => Pending(n)' = Pending(n)
  BY SlotDone
<1>2. D!DefaultsOf(b)' = D!DefaultsOf(b) \cup {x}
  BY <1>1 DEF D!DefaultsOf, D!AddressesOf
<1>3. \A n \in Usernames : n # b => D!DefaultsOf(n)' = D!DefaultsOf(n)
  BY <1>1 DEF D!DefaultsOf, D!AddressesOf
<1>4. a # b => b \in contested'
  <2> SUFFICES ASSUME a # b PROVE Imposes(b)
    BY DEF RecordAddresses
  <2> QED
    BY <1>0 DEF Imposes, D!AddressesOf
<1>5. ASSUME NEW n \in Usernames \ contested' PROVE Settled(n)'
  <2>1. Settled(n)
    BY DEF DefaultsSettled, RecordAddresses
  <2>2. CASE n # a
    BY <1>0, <1>3, <1>4, <2>1, <2>2, UntouchedSettled DEF Untouched
  <2>3. CASE n = a
    <3>1. D!DefaultsOf(a) = {} /\ \A g \in Pending(a) : g = h
      BY <1>0, <2>1, <2>3 DEF Settled
    <3>2. Pending(a)' = {}
      BY <1>0, <3>1
    <3>3. CASE a = b
      <4>1. D!DefaultsOf(a)' = {x}
        BY <1>2, <3>1, <3>3
      <4> QED
        BY <1>0, <2>3, <3>2, <4>1, WrittenSettled
    <3>4. CASE a # b
      BY <1>0, <1>3, <2>1, <2>3, <3>2, <3>4, MissedOne
    <3> QED
      BY <3>3, <3>4
  <2> QED
    BY <2>2, <2>3
<1> QED
  BY <1>5 DEF DefaultsSettled

\* The address that was to become the default is gone: its account has none.
LEMMA MissedSettled ==
    ASSUME D!TypeOK, DefaultsSettled, NEW h \in Handlers, NEW a \in Usernames,
           write[h].account = a, write' = [write EXCEPT ![h] = D!Idle],
           address' = address, RecordAddresses
    PROVE  DefaultsSettled'
<1>0. /\ Pending(a)' = Pending(a) \ {h} /\ h \in Pending(a)
      /\ \A n \in Usernames : n # a => Pending(n)' = Pending(n)
  BY SlotDone
<1>1. ASSUME NEW n \in Usernames \ contested' PROVE Settled(n)'
  <2>1. Settled(n) /\ D!DefaultsOf(n)' = D!DefaultsOf(n)
    BY DEF DefaultsSettled, RecordAddresses, D!DefaultsOf, D!AddressesOf
  <2>2. CASE n # a
    BY <1>0, <2>1, <2>2, UntouchedSettled DEF Untouched
  <2>3. CASE n = a
    <3>1. Pending(a)' = {} /\ Pending(a) # {}
      BY <1>0, <2>1, <2>3 DEF Settled
    <3> QED
      BY <2>1, <2>3, <3>1, MissedOne
  <2> QED
    BY <2>2, <2>3
<1> QED
  BY <1>1 DEF DefaultsSettled

\* The second write of a default keeps the invariant.
LEMMA DefaultWritten ==
    ASSUME D!TypeOK, DefaultsSettled, NEW h \in Handlers, D!Work(h), RecordAddresses
    PROVE  DefaultsSettled'
<1>1. D!Busy(h) /\ write' = [write EXCEPT ![h] = D!Idle]
  BY DEF D!Work, D!CreateDefault, D!UpdateDefault
<1>2. PICK a \in Usernames : write[h].account = a
  BY <1>1, PendingFacts
<1>3. ASSUME NEW x \in Addresses, D!CreateDefault(h, x) PROVE DefaultsSettled'
  <2>1. D!Store(x, a, TRUE) /\ address[x] = None
    BY <1>2, <1>3 DEF D!CreateDefault, D!Fresh
  <2> QED
    BY <1>1, <1>2, <2>1, StoredSettled
<1>4. CASE D!UpdateDefault(h)
  <2>1. PICK x \in Addresses : write[h].address = x
    BY <1>1, <1>4 DEF D!UpdateDefault, D!TypeOK, D!Busy
  <2>2. address[x] # None => address[x].owner \in Usernames
    BY DEF D!TypeOK, D!Address
  <2>3. \/ address' = address
        \/ address[x] # None /\ D!Store(x, address[x].owner, TRUE)
    BY <1>4, <2>1 DEF D!UpdateDefault
  <2> QED
    BY <1>1, <1>2, <2>1, <2>2, <2>3, MissedSettled, StoredSettled
<1> QED
  BY <1>3, <1>4 DEF D!Work

\* Slot h resets the defaults of n and sets out to write one.
LEMMA DefaultAsked ==
    ASSUME D!TypeOK, DefaultsSettled, NEW h \in Handlers, NEW n \in Usernames,
           NEW x \in Addresses \cup {None}, D!ResetFor(h, n, x), RecordAddresses
    PROVE  DefaultsSettled'
<1> USE AddressAssumption, AccountsAssumption
<1>1. /\ write[h].account = None /\ write'[h].account = n /\ write'[h].address = x
      /\ \A g \in Handlers : g # h => write'[g] = write[g]
  BY DEF D!ResetFor, D!Busy, D!Idle, D!Write, D!TypeOK
<1>2. h \in Pending(n)' /\ \A m \in Usernames : m # n => Pending(m)' = Pending(m)
  BY <1>1 DEF Pending
<1>3. \A y \in Addresses :
        /\ address'[y] = None <=> address[y] = None
        /\ address[y] # None => address'[y].owner = address[y].owner
        /\ y \in D!DefaultsOf(n) => ~address'[y].isDefault
        /\ y \notin D!DefaultsOf(n) => address'[y] = address[y]
  BY DEF D!ResetFor, D!Reset, D!DefaultsOf, D!AddressesOf, D!TypeOK, D!Address
<1>4. D!DefaultsOf(n)' = {}
  BY <1>3 DEF D!DefaultsOf, D!AddressesOf
<1>5. ASSUME NEW m \in Usernames, m # n PROVE D!DefaultsOf(m)' = D!DefaultsOf(m)
  <2>1. \A y \in Addresses : y \in D!DefaultsOf(m)' <=> y \in D!DefaultsOf(m)
    BY <1>3, <1>5 DEF D!DefaultsOf, D!AddressesOf
  <2> QED
    BY <2>1 DEF D!DefaultsOf, D!AddressesOf
<1>6. ASSUME NEW m \in Usernames \ contested' PROVE Settled(m)'
  <2>1. Settled(m)
    BY DEF DefaultsSettled, RecordAddresses
  <2>2. CASE m # n
    BY <1>2, <1>5, <2>1, <2>2, UntouchedSettled DEF Untouched
  <2> QED
    BY <1>2, <1>4, <2>2, AskedSettled
<1> QED
  BY <1>6 DEF DefaultsSettled

\* A write of one address that makes none the default.
LEMMA PlainWritten ==
    ASSUME D!TypeOK, DefaultsSettled, RecordAddresses, write' = write,
           NEW x \in Addresses,
           \A y \in Addresses : y # x => address'[y] = address[y],
           address'[x] = None \/ ~address'[x].isDefault
    PROVE  DefaultsSettled'
<1>1. \A n \in Usernames : D!DefaultsOf(n)' \subseteq D!DefaultsOf(n)
  BY DEF D!DefaultsOf, D!AddressesOf
<1>2. ASSUME NEW n \in Usernames \ contested' PROVE Settled(n)'
  BY <1>1, FewerSettled DEF DefaultsSettled, RecordAddresses
<1> QED
  BY <1>2 DEF DefaultsSettled

\* A step that writes no address keeps the invariant.
LEMMA AddressesLeft ==
    ASSUME D!TypeOK, DefaultsSettled, UNCHANGED <<address, write>>,
           RecordAddresses \/ UNCHANGED <<chosen, contested, missed>>
    PROVE  DefaultsSettled'
<1>1. \A n \in Usernames : Untouched(n)
  BY DEF Untouched, Pending, D!DefaultsOf, D!AddressesOf
<1>2. ASSUME NEW n \in Usernames \ contested' PROVE Settled(n)'
  <2>1. Settled(n)
    BY DEF DefaultsSettled, RecordAddresses
  <2>2. CASE RecordAddresses
    BY <1>1, <2>1, <2>2, UntouchedSettled
  <2>3. CASE UNCHANGED <<chosen, contested, missed>>
    BY <1>1, <2>1, <2>3 DEF Settled, Untouched
  <2> QED
    BY <2>2, <2>3
<1> QED
  BY <1>2 DEF DefaultsSettled

LEMMA DefaultsStep ==
    ASSUME D!TypeOK, DefaultsSettled, [HNext]_hvars
    PROVE  DefaultsSettled'
<1> USE AddressAssumption, AccountsAssumption
<1>1. CASE Account /\ RecordAddresses
  BY <1>1, AddressesLeft DEF Account
<1>2. CASE Deliver /\ RecordAddresses
  <2>1. ASSUME NEW h \in Handlers, NEW n \in Usernames, D!Ask(h, n)
        PROVE  DefaultsSettled'
    <3>1. ASSUME NEW x \in Addresses, D!CreatePlain(n, x) PROVE DefaultsSettled'
      <4>1. /\ write' = write /\ ~address'[x].isDefault
            /\ \A y \in Addresses : y # x => address'[y] = address[y]
        BY <3>1 DEF D!CreatePlain, D!Store, D!TypeOK
      <4> QED
        BY <1>2, <4>1, PlainWritten
    <3>2. ASSUME NEW x \in Addresses, D!UpdatePlain(x) PROVE DefaultsSettled'
      <4>1. /\ write' = write /\ ~address'[x].isDefault
            /\ \A y \in Addresses : y # x => address'[y] = address[y]
        BY <3>2 DEF D!UpdatePlain, D!Store, D!TypeOK
      <4> QED
        BY <1>2, <4>1, PlainWritten
    <3>3. ASSUME NEW x \in Addresses, D!Delete(x) PROVE DefaultsSettled'
      <4>1. /\ write' = write /\ address'[x] = None
            /\ \A y \in Addresses : y # x => address'[y] = address[y]
        BY <3>3 DEF D!Delete, D!TypeOK
      <4> QED
        BY <1>2, <4>1, PlainWritten
    <3> QED
      BY <1>2, <2>1, <3>1, <3>2, <3>3, DefaultAsked DEF D!Ask
  <2> QED
    BY <1>2, <2>1, DefaultWritten DEF Deliver
<1>3. CASE /\ Restart /\ UNCHANGED <<chosen, contested>>
           /\ missed' = missed \cup {n \in Usernames : Pending(n) # {}}
  <2>1. /\ address' = address /\ \A h \in Handlers : write'[h] = D!Idle
    BY <1>3 DEF Restart, D!Stop
  <2>2. ASSUME NEW n \in Usernames \ contested' PROVE Settled(n)'
    <3>1. Settled(n) /\ UNCHANGED chosen
      BY <1>3 DEF DefaultsSettled
    <3>2. Pending(n)' = {} /\ D!DefaultsOf(n)' = D!DefaultsOf(n)
      BY <2>1, PendingFacts DEF Pending, D!DefaultsOf, D!AddressesOf
    <3>3. n \notin missed' => n \notin missed /\ Pending(n) = {}
      BY <1>3
    <3> QED
      BY <3>1, <3>2, <3>3 DEF Settled
  <2> QED
    BY <2>2 DEF DefaultsSettled
<1>4. CASE UNCHANGED hvars
  BY <1>4, AddressesLeft DEF hvars, avars, history
<1> QED
  BY <1>1, <1>2, <1>3, <1>4 DEF HNext

\* An account never has two default addresses, unless it made two requests for a
\* default at once or another account made one of its addresses the default; and
\* between its requests it has the one it chose, or none once a request took it
\* away, unless a request of its own missed or a crash came between the two writes
\* (delivery_address.controller.ts:37-79, delivery_address.service.ts).
THEOREM DefaultAddressChosen == HSpec => []DefaultsAsChosen
<1> USE AccountsAssumption, AddressAssumption
<1>1. HInit => DefaultsSettled
  <2> SUFFICES ASSUME HInit PROVE DefaultsSettled
    OBVIOUS
  <2>1. /\ \A h \in Handlers : write[h] = D!Idle
        /\ \A x \in Addresses : address[x] = None
        /\ chosen = {}
    BY DEF HInit, AInit, D!Init
  <2>2. \A n \in Usernames : Pending(n) = {} /\ D!DefaultsOf(n) = {}
    BY <2>1 DEF Pending, D!DefaultsOf, D!AddressesOf, D!Idle, D!Write
  <2> QED
    BY <2>1, <2>2 DEF DefaultsSettled, Settled
<1>2. RegisteredTypeOK /\ DefaultsSettled /\ [HNext]_hvars => DefaultsSettled'
  BY DefaultsStep DEF RegisteredTypeOK
<1>3. DefaultsSettled => DefaultsAsChosen
  BY AtMostOne DEF DefaultsSettled, Settled, DefaultsAsChosen
<1> QED
  BY <1>1, <1>2, <1>3, TypeCorrect, PTL DEF HSpec
=============================================================================
