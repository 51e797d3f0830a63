------------------------------- MODULE Accounts -------------------------------
(***************************************************************************)
(* Accounts: the two registrations of auth.controller.ts with the pipe     *)
(* that checks the staff one, the creation of staff members and roles, and *)
(* login of auth.service.ts.  A customer's registration writes three       *)
(* documents (customer, account, account role) with checks before them and *)
(* nothing to undo them; the last write is not awaited: the slot of a      *)
(* registration stays busy until it is done.  The first admin, whose token *)
(* opens the staff routes, is put there by hand, and no role is.           *)
(***************************************************************************)
EXTENDS Integers, FiniteSets

CONSTANTS
    Customers,  \* customers, by phone number
    Staff,      \* staff members, by phone number
    RoleCodes,  \* the codes of roles
    Usernames,  \* account ids
    Handlers,   \* slots for requests in progress
    None        \* no document, no value

People == Customers \cup Staff

ASSUME AccountsAssumption ==
    /\ Customers \cap Staff = {}
    /\ None \notin People \cup Usernames

VARIABLES
    customer,   \* the customers whose document is stored
    staff,      \* the staff members whose document is stored
    roles,      \* the codes of the role documents stored
    account,    \* account[n]: the userId of the account of n, None before it exists
    role,       \* the accounts that have an accountRoles document
    session,    \* <<n, granted>>: tokens of n were issued, with its role or without
    req         \* req[h]: the registration handler h executes

vars == <<customer, staff, roles, account, role, session, req>>

\* public: it came by customer/account/register, not from the staff route.
Request(pc, u, n, public) ==
    [pc |-> pc, user |-> u, name |-> n, public |-> public]

Idle == Request("idle", None, None, FALSE)

Requests == {Idle} \cup
    [pc : {"username", "customer", "lookup", "account", "role"},
     user : People, name : Usernames, public : BOOLEAN]

AccountsOf(u) == {n \in Usernames : account[n] = u}

Persons == customer \cup staff

\* Types of the state; an account is of a stored person, and a request that is
\* past the customer's document or the account's finds it stored.
TypeOK ==
    /\ customer \subseteq Customers /\ staff \subseteq Staff
    /\ roles \subseteq RoleCodes
    /\ account \in [Usernames -> Persons \cup {None}]
    /\ role \subseteq {n \in Usernames : account[n] # None}
    /\ session \subseteq {n \in Usernames : account[n] # None} \X BOOLEAN
    /\ req \in [Handlers -> Requests]
    /\ \A h \in Handlers :
        LET r == req[h] IN
        /\ r.pc \in {"customer", "lookup"} => r.public
        /\ r.public => r.user \in Customers
        /\ (r.pc \in {"lookup", "account"} \/ (r.pc = "username" /\ ~r.public))
            => r.user \in Persons
        /\ r.pc = "role" => account[r.name] = r.user

Init ==
    /\ customer = {} /\ staff = {} /\ roles = {}
    /\ account = [n \in Usernames |-> None]
    /\ role = {} /\ session = {}
    /\ req = [h \in Handlers |-> Idle]

Documents == <<customer, staff, roles, account, role>>

Begin(h, request) ==
    req[h].pc = "idle" /\ req' = [req EXCEPT ![h] = request]
GoTo(h, step) == req' = [req EXCEPT ![h].pc = step]
Finish(h) == req' = [req EXCEPT ![h] = Idle]
At(h, step) == req[h].pc = step

-----------------------------------------------------------------------------
(* POST auth/customer/account/register -- registerCustomerAccount *)

\* A document with the phone number of c is stored; phone is unique.
PhoneTaken(c) == c \in customer

\* findOneByPhone finds no customer; if it does, the request is refused.
PhoneFree(h, c, n) ==
    /\ ~PhoneTaken(c)
    /\ Begin(h, Request("username", c, n, TRUE))
    /\ UNCHANGED <<Documents, session>>

\* Variant: phone numbers are not unique, and an existing customer is no error.
StoreCustomerAgain(h) ==
    /\ At(h, "customer")
    /\ customer' = customer \cup {req[h].user}
    /\ GoTo(h, "lookup")
    /\ UNCHANGED <<staff, roles, account, role, session>>

\* customerService.create: the index on phone refuses a second document.
StoreCustomer(h) ==
    /\ At(h, "customer")
    /\ IF PhoneTaken(req[h].user)
       THEN Finish(h) /\ UNCHANGED customer
       ELSE customer' = customer \cup {req[h].user} /\ GoTo(h, "lookup")
    /\ UNCHANGED <<staff, roles, account, role, session>>

\* findOneRoles: without a role CUSTOMER the handler fails on its _id, and what
\* was stored before stays.
FindRole(h) ==
    /\ At(h, "lookup")
    /\ IF "CUSTOMER" \in roles THEN GoTo(h, "account") ELSE Finish(h)
    /\ UNCHANGED <<Documents, session>>

-----------------------------------------------------------------------------
(* POST auth/staff/account/register -- RegisterAccountValidatePipe *)

\* Variant: whether the staff member has an account is not looked up.
UserAcceptedAny(u) == u \in Persons

\* Variant: whether the user exists is not looked up.
UserAcceptedUnknown(u) ==
    \/ u \in staff /\ AccountsOf(u) = {}
    \/ u \in Customers

\* The user exists; a staff member has no account yet, a customer may.
UserAccepted(u) ==
    \/ u \in staff /\ AccountsOf(u) = {}
    \/ u \in customer

\* The role to be given exists, whichever it is.
UserChecked(h, u, n) ==
    /\ roles # {} /\ UserAccepted(u)
    /\ Begin(h, Request("username", u, n, FALSE))
    /\ UNCHANGED <<Documents, session>>

-----------------------------------------------------------------------------
(* What both registrations do next *)

\* findByUsername: an account of that name ends the request.
CheckUsername(h) ==
    LET r == req[h] IN
    /\ At(h, "username")
    /\ IF account[r.name] # None THEN Finish(h)
       ELSE GoTo(h, IF r.public THEN "customer" ELSE "account")
    /\ UNCHANGED <<Documents, session>>

\* Variant: user names are not unique, and the later account takes the name.
StoreAccountOver(h) ==
    LET r == req[h] IN
    /\ At(h, "account")
    /\ account' = [account EXCEPT ![r.name] = r.user] /\ GoTo(h, "role")
    /\ UNCHANGED <<customer, staff, roles, role, session>>

\* registerAccount: the index on username refuses a second document, and what
\* was stored before stays.
StoreAccount(h) ==
    LET r == req[h] IN
    /\ At(h, "account")
    /\ IF account[r.name] # None
       THEN Finish(h) /\ UNCHANGED account
       ELSE account' = [account EXCEPT ![r.name] = r.user] /\ GoTo(h, "role")
    /\ UNCHANGED <<customer, staff, roles, role, session>>

\* Variant: the role is stored only for registrations by the staff route.
StoreRoleOfStaff(h) ==
    /\ At(h, "role")
    /\ role' = IF req[h].public THEN role ELSE role \cup {req[h].name}
    /\ Finish(h)
    /\ UNCHANGED <<customer, staff, roles, account, session>>

\* createAccountRole, not awaited.
StoreRole(h) ==
    /\ At(h, "role")
    /\ role' = role \cup {req[h].name}
    /\ Finish(h)
    /\ UNCHANGED <<customer, staff, roles, account, session>>

-----------------------------------------------------------------------------
(* POST staff and POST auth/role: one write each *)

\* A second document with the phone number or the citizen id is refused.
CreateStaff(u) ==
    /\ u \in Staff \ staff
    /\ staff' = staff \cup {u}
    /\ UNCHANGED <<customer, roles, account, role, session, req>>

\* Codes are not unique; a second role with the code changes nothing here.
CreateRole(code) ==
    /\ code \in RoleCodes \ roles
    /\ roles' = roles \cup {code}
    /\ UNCHANGED <<customer, staff, account, role, session, req>>

-----------------------------------------------------------------------------
(* POST auth/login *)

\* LoginValidatePipe finds the account; the password is taken to be right.
Accepts(n) == account[n] # None

\* Variant: every token carries the role.
LoginGranted(n) ==
    /\ Accepts(n)
    /\ session' = session \cup {<<n, TRUE>>}
    /\ UNCHANGED <<Documents, req>>

\* The token carries the roles stored by now; refreshing it carries them over.
Login(n) ==
    /\ Accepts(n)
    /\ session' = session \cup {<<n, n \in role>>}
    /\ UNCHANGED <<Documents, req>>

\* The tokens of a session expire, or it is logged out.
SessionEnds == \E s \in session :
    /\ session' = session \ {s}
    /\ UNCHANGED <<Documents, req>>

\* The process stops and docker restarts it; MongoDB keeps its data.
Crash ==
    /\ \E h \in Handlers : req[h].pc # "idle"
    /\ req' = [h \in Handlers |-> Idle]
    /\ UNCHANGED <<Documents, session>>

-----------------------------------------------------------------------------

Register(h) ==
    \/ \E c \in Customers, n \in Usernames : PhoneFree(h, c, n)
    \/ \E u \in People, n \in Usernames : UserChecked(h, u, n)
    \/ CheckUsername(h) \/ StoreCustomer(h) \/ FindRole(h) \/ StoreAccount(h)
    \/ StoreRole(h)

Administer ==
    \/ \E u \in Staff : CreateStaff(u)
    \/ \E code \in RoleCodes : CreateRole(code)

Serve ==
    \/ \E h \in Handlers : Register(h)
    \/ Administer
    \/ \E n \in Usernames : Login(n)
    \/ SessionEnds

Next == Serve \/ Crash

Spec == Init /\ [][Next]_vars
=============================================================================
