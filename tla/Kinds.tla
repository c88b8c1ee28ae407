------------------------------- MODULE Kinds --------------------------------
(***************************************************************************)
(* The kinds of managed resources, each in both scopes.                    *)
(***************************************************************************)
EXTENDS RecordStatus, AddressStatus, ZoneStatus, TrafficStatus, Elements

Tables   == Records @@ AddressKinds @@ ZoneKinds @@ TrafficKinds
Statuses == RecordStatuses @@ AddressStatuses @@ ZoneStatuses @@ TrafficStatuses

Scoped(scope) ==
    [n \in (DOMAIN Tables) \X {scope} |-> InScope(Tables[n[1]], Statuses[n[1]], scope)]

Kinds == Scoped("cluster") @@ Scoped("namespaced")
=============================================================================
