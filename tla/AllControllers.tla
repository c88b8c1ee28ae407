--------------------------- MODULE AllControllers ---------------------------
(***************************************************************************)
(* The controllers of all kinds, each in both scopes.                      *)
(***************************************************************************)
EXTENDS RecordControllers, AddressControllers, ZoneControllers, TrafficControllers

AllKinds == RecordKinds @@ AddressKinds @@ ZoneKinds @@ TrafficKinds

\* The kinds whose identifying fields the CRD makes immutable.
Immutable == {"NS", "Network", "NetworkContainer", "Delegated", "Forward", "Auth"}
=============================================================================
