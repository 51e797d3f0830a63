--------------------------- MODULE DeliveryAddress ---------------------------
(***************************************************************************)
(* The delivery addresses of an account: delivery_address.controller.ts    *)
(* and delivery_address.service.ts.  Making an address the default takes   *)
(* two writes: updateMany makes the account's default an ordinary address, *)
(* then the address itself is written.                                     *)
(***************************************************************************)
EXTENDS FiniteSets

CONSTANTS
    Accounts,   \* account ids
    Addresses,  \* address ids, a bound on the addresses at one time
    Handlers,   \* slots for requests in progress
    None        \* no document, no value

Address == [owner : Accounts, isDefault : BOOLEAN]

VARIABLES
    address,    \* address[x]: the document, None if there is none
    write       \* write[h]: the default address handler h has still to write

vars == <<address, write>>

Write(a, x) == [account |-> a, address |-> x]
Idle == Write(None, None)

AddressesOf(a) == {x \in Addresses : address[x] # None /\ address[x].owner = a}
DefaultsOf(a) == {x \in AddressesOf(a) : address[x].isDefault}

\* Types of the state; address None is an address yet to be created.
TypeOK ==
    /\ address \in [Addresses -> Address \cup {None}]
    /\ write \in [Handlers ->
            {Idle} \cup [account : Accounts, address : Addresses \cup {None}]]

Init ==
    /\ address = [x \in Addresses |-> None]
    /\ write = [h \in Handlers |-> Idle]

Busy(h) == write[h] # Idle
Store(x, a, default) ==
    address' = [address EXCEPT ![x] = [owner |-> a, isDefault |-> default]]

\* Variant: the account's default stays as it is.
ResetNone(a) == UNCHANGED address

\* updateDefaultToNormal.
Reset(a) ==
    address' = [x \in Addresses |->
        IF x \in DefaultsOf(a) THEN [address[x] EXCEPT !.isDefault = FALSE]
        ELSE address[x]]

\* POST and PATCH with isDefault: whoever asks gives up its own default.  Nothing
\* compares the owner of the address a PATCH or DELETE names with who asks.  (An
\* id no address has is one deleted before the write, which comes second.)
ResetFor(h, a, x) ==
    /\ ~Busy(h)
    /\ x # None => address[x] # None
    /\ Reset(a)
    /\ write' = [write EXCEPT ![h] = Write(a, x)]

\* MongoDB never gives an id out twice: one nobody holds stands for a new one.
Fresh(x) == address[x] = None /\ \A h \in Handlers : write[h].address # x

CreateDefault(h, x) ==
    /\ Busy(h) /\ write[h].address = None /\ Fresh(x)
    /\ Store(x, write[h].account, TRUE)
    /\ write' = [write EXCEPT ![h] = Idle]

\* findByIdAndUpdate goes by id alone and writes nothing when there is no such
\* address; the address stays its owner's.
UpdateDefault(h) ==
    LET x == write[h].address IN
    /\ Busy(h) /\ x # None
    /\ IF address[x] = None THEN UNCHANGED address
       ELSE Store(x, address[x].owner, TRUE)
    /\ write' = [write EXCEPT ![h] = Idle]

\* POST and PATCH without isDefault, one write each; a PATCH that says nothing
\* of isDefault leaves the modelled fields alone.
CreatePlain(a, x) ==
    /\ Fresh(x)
    /\ Store(x, a, FALSE)
    /\ UNCHANGED write

UpdatePlain(x) ==
    /\ address[x] # None /\ address[x].isDefault
    /\ Store(x, address[x].owner, FALSE)
    /\ UNCHANGED write

Delete(x) ==
    /\ address[x] # None
    /\ address' = [address EXCEPT ![x] = None]
    /\ UNCHANGED write

\* The process stops; MongoDB keeps its data.
Stop ==
    /\ write' = [h \in Handlers |-> Idle]
    /\ UNCHANGED address

\* What account a asks for in slot h, and what a slot does on its own.
Ask(h, a) ==
    \/ \E x \in Addresses \cup {None} : ResetFor(h, a, x)
    \/ \E x \in Addresses : CreatePlain(a, x) \/ UpdatePlain(x) \/ Delete(x)

Work(h) == (\E x \in Addresses : CreateDefault(h, x)) \/ UpdateDefault(h)

Next ==
    \/ \E h \in Handlers : (\E a \in Accounts : Ask(h, a)) \/ Work(h)
    \/ (\E h \in Handlers : Busy(h)) /\ Stop

Spec == Init /\ [][Next]_vars
=============================================================================
