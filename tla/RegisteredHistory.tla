-------------------------- MODULE RegisteredHistory --------------------------
(***************************************************************************)
(* Registered with history variables, and the properties that relate the   *)
(* documents a registration or a change of the default address writes.     *)
(***************************************************************************)
EXTENDS Registered

CONSTANT
    Revisited   \* bound: the accounts served even so

VARIABLES
    doubled,    \* staff members two registrations were checked for together
    stranded,   \* customers whose registration ended before their account's
    cut,        \* accounts a crash left without a role
    own,        \* accounts customers registered themselves
    chosen,     \* accounts that made an address the default and kept it
    contested,  \* accounts with two default requests at once, or an address
                \* another account made the default
    missed      \* accounts whose default request wrote none of their addresses

history == <<doubled, stranded, cut, own, chosen, contested, missed>>
hvars == <<avars, history>>

HInit ==
    /\ AInit
    /\ doubled = {} /\ stranded = {} /\ cut = {} /\ own = {}
    /\ chosen = {} /\ contested = {} /\ missed = {}

Unstored == {"username", "account"}

Rivals(u) == \E h, g \in Handlers :
    /\ h # g
    /\ req'[h].user = u /\ req'[h].pc \in Unstored
    /\ req'[g].user = u /\ req'[g].pc \in Unstored

\* The accounts slot h makes, and the customer it leaves without one.
Stored(h) == {n \in Usernames : At(h, "account") /\ req'[h].pc = "role"
                                /\ req[h].name = n}
Strands(h, c) == /\ req[h].pc \in {"lookup", "account"} /\ req'[h].pc = "idle"
                 /\ req[h].public /\ req[h].user = c

RecordAccounts ==
    /\ doubled' = doubled \cup {u \in Staff : Rivals(u)}
    /\ stranded' = stranded \cup
            {c \in Customers : \E h \in Handlers : Strands(h, c)}
    /\ own' = own \cup
            UNION {Stored(h) : h \in {g \in Handlers : req[g].public}}

\* Account n gets the default it asked for, or is left without by a request,
\* anybody's, that makes it an ordinary address or deletes it.
Sets(n) == \E h \in Handlers :
    write[h].account = n /\ write'[h] = D!Idle /\ D!DefaultsOf(n)' # {}
Loses(n) ==
    D!DefaultsOf(n) # {} /\ D!DefaultsOf(n)' = {} /\ write' = write

Pending(n) == {h \in Handlers : write[h].account = n}

\* A request of another account makes an address of n the default.
Imposes(n) == \E h \in Handlers :
    /\ write[h].account # n /\ write[h].address \in D!AddressesOf(n)
    /\ write'[h] = D!Idle

RecordAddresses ==
    /\ chosen' = {n \in Usernames : Sets(n) \/ (n \in chosen /\ ~Loses(n))}
    /\ contested' = contested \cup {n \in Usernames :
            Imposes(n) \/ \E h, g \in Pending(n)' : h # g}
    /\ missed' = missed \cup {n \in Usernames :
            Pending(n) # {} /\ Pending(n)' = {} /\ D!DefaultsOf(n)' = {}}

\* Bound: nothing more is asked for or about the addresses of these, and their
\* tokens stay; the second command of what was asked before still comes.
LeftAlone == (contested \cup missed) \ Revisited

Rests(n) ==
    /\ Pending(n)' \subseteq Pending(n)
    /\ \A b \in BOOLEAN : <<n, b>> \in session' <=> <<n, b>> \in session
    /\ write' = write =>
            /\ D!AddressesOf(n)' = D!AddressesOf(n)
            /\ D!DefaultsOf(n)' = D!DefaultsOf(n)

HNext ==
    \/ /\ Account \/ Deliver
       /\ \A n \in LeftAlone : Rests(n)
       /\ RecordAccounts /\ RecordAddresses
       /\ UNCHANGED cut
    \/ /\ Restart
       /\ RecordAccounts
       /\ cut' = cut \cup {n \in Usernames :
            \E h \in Handlers : At(h, "role") /\ req[h].name = n}
       /\ missed' = missed \cup {n \in Usernames : Pending(n) # {}}
       /\ UNCHANGED <<chosen, contested>>

HSpec == HInit /\ [][HNext]_hvars

-----------------------------------------------------------------------------
(* Safety *)

\* Types of both components.
RegisteredTypeOK == TypeOK /\ D!TypeOK

\* A staff member has one account at most (STAFF_HAD_ACCOUNT of the pipe),
\* unless two registrations for that person were checked side by side.
OneAccountPerStaff ==
    \A u \in Staff \ doubled : Cardinality(AccountsOf(u)) <= 1

\* A customer registers once, whatever overlaps: the index on phone holds
\* where the check before it does not (registerCustomerAccount).
OneOwnAccount ==
    \A c \in Customers : Cardinality(AccountsOf(c) \cap own) <= 1

\* A stored customer has an account, or its registration is still at it,
\* unless a crash, the loss of the user name to another, or the lack of a role
\* ended it there.
CustomersHaveAccounts ==
    \A c \in customer \ stranded :
        \/ AccountsOf(c) # {}
        \/ \E h \in Handlers : req[h].pc \in {"lookup", "account"} /\ req[h].user = c

\* An account has its role, or the unawaited write of it is in progress,
\* unless a crash came first.
AccountsHaveRoles ==
    \A n \in Usernames \ cut : account[n] # None =>
        n \in role \/ \E h \in Handlers : At(h, "role") /\ req[h].name = n

\* An account never has two default addresses (createDeliveryAddress,
\* updateDeliveryAddress: the reset and the write are two commands), unless it
\* made two requests for a default at once or another account made one of its
\* addresses the default, for PATCH does not ask whose it is.  Between its
\* requests it has the default it chose, or none once a request took it away,
\* unless one of its requests wrote an address that is not its own or is gone,
\* or a crash came between the two commands.
DefaultsAsChosen ==
    \A n \in Usernames \ contested :
        /\ Cardinality(D!DefaultsOf(n)) <= 1
        /\ (n \notin missed /\ Pending(n) = {}) =>
                (n \in chosen <=> D!DefaultsOf(n) # {})

\* Only accounts whose role is stored have addresses: the role reaches the
\* guard of the address routes through the token issued at login.
OwnersHaveRoles ==
    \A x \in Addresses : address[x] # None => address[x].owner \in role
=============================================================================
