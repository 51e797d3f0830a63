------------------------------ MODULE Registered ------------------------------
(***************************************************************************)
(* Accounts with the delivery addresses of the accounts: the address       *)
(* routes are open to tokens that carry a role (JwtAuthGuard, RolesGuard). *)
(* One process serves both, and a crash stops both.                        *)
(***************************************************************************)
EXTENDS Accounts

CONSTANT Addresses

VARIABLES address, write

D == INSTANCE DeliveryAddress WITH Accounts <- Usernames

ASSUME AddressAssumption == None \notin Addresses \cup D!Address

avars == <<vars, address, write>>

\* A slot serves one request.
Free(h) == req[h].pc = "idle" /\ ~D!Busy(h)

\* RolesGuard: the token carries one of the roles of the route.
Allowed(n) == <<n, TRUE>> \in session

AInit == Init /\ D!Init

Account ==
    /\ \/ \E h \in Handlers : ~D!Busy(h) /\ Register(h)
       \/ Administer
       \/ \E n \in Usernames : Login(n)
       \/ SessionEnds
    /\ UNCHANGED <<address, write>>

Deliver ==
    /\ \E h \in Handlers :
        \/ D!Work(h)
        \/ Free(h) /\ \E n \in Usernames : Allowed(n) /\ D!Ask(h, n)
    /\ UNCHANGED vars

Restart ==
    /\ \E h \in Handlers : ~Free(h)
    /\ req' = [h \in Handlers |-> Idle]
    /\ D!Stop
    /\ UNCHANGED <<Documents, session>>

ANext == Account \/ Deliver \/ Restart

ASpec == AInit /\ [][ANext]_avars
=============================================================================
