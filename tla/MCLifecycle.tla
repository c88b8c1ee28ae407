---------------------------- MODULE MCLifecycle -----------------------------
(***************************************************************************)
(* The controllers of all kinds and scopes, one for each way of working.   *)
(***************************************************************************)
EXTENDS Lifecycle, AllControllers

CONSTANTS k1, k2, v1, v2

\* What Lifecycle knows of a kind in a scope apart from its name.
Ways(n) == <<AllKinds[n], n \in Immutable>>

\* One kind for every way, in one of its scopes, and one of them in the other as well.
Representatives ==
    LET chosen == {CHOOSE n \in DOMAIN AllKinds : Ways(n) = w : w \in {Ways(n) : n \in DOMAIN AllKinds}}
    IN  [kind : chosen, scope : {"cluster"}] \cup [kind : {"TXT"}, scope : {"namespaced"}]

\* An object that anybody may adopt, or that is another's, or that is not to be touched.
NoObject     == [r \in Ref |-> Absent]
OneObject(x, o) == [NoObject EXCEPT ![[key |-> x, turn |-> 0]] = [val |-> v1, own |-> o]]
Holdings ==
    [n \in DOMAIN AllKinds |->
       {NoObject} \cup IF n \in {"View", "Attribute"} THEN {OneObject(k2, "nobody")}
                       ELSE {OneObject(k1, "nobody"), OneObject(k1, "other")}]
=============================================================================
