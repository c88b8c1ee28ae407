------------------------------ MODULE Ownership ------------------------------
(***************************************************************************)
(* What the identity stamp is for, without references, searches, copies    *)
(* or crashes: every object of the Grid is free or held by one tenant, a   *)
(* managed resource.  A tenant holds one object at most, and only it may   *)
(* move or destroy that; an object that nobody holds is adopted by whom    *)
(* its users name, and is never destroyed.  Who leaves holds nothing.      *)
(***************************************************************************)
CONSTANTS UID, Addr, NoStamp, Absent, Imports

VARIABLES
    tenants,  \* who may hold an object
    held      \* held[a]: who holds the object at a

vars == <<tenants, held>>

Holdings(m) == {a \in Addr : held[a] = m}

Init ==
    /\ tenants = {}
    /\ held \in [Addr -> {NoStamp, Absent}]

Join(m) ==
    /\ m \notin tenants
    /\ tenants' = tenants \cup {m}
    /\ UNCHANGED held

Leave(m) ==
    /\ m \in tenants /\ Holdings(m) = {}
    /\ tenants' = tenants \ {m}
    /\ UNCHANGED held

\* A new object at a free address.
Claim(m, a) ==
    /\ m \in tenants /\ Holdings(m) = {} /\ held[a] = Absent
    /\ held' = [held EXCEPT ![a] = m]
    /\ UNCHANGED tenants

\* The object at a is or becomes m's, and goes to b, if that is free.
Take(m, a, b) ==
    /\ m \in tenants
    /\ \/ held[a] = m
       \/ held[a] = NoStamp /\ a \in Imports[m] /\ Holdings(m) = {}
    /\ a = b \/ held[b] = Absent
    /\ held' = [held EXCEPT ![a] = Absent, ![b] = m]
    /\ UNCHANGED tenants

Release(m, a) ==
    /\ m \in tenants /\ held[a] = m
    /\ held' = [held EXCEPT ![a] = Absent]
    /\ UNCHANGED tenants

\* A tenant comes or goes, or an object changes hands.
Next ==
    \/ \E m \in UID : Join(m) \/ Leave(m)
    \/ /\ held' # held
       /\ \E m \in UID, a \in Addr :
            Claim(m, a) \/ Release(m, a) \/ \E b \in Addr : Take(m, a, b)

Spec == Init /\ [][Next]_vars
=============================================================================
