----------------------------- MODULE ZoneStatus -----------------------------
(***************************************************************************)
(* The status of zones and views.                                          *)
(***************************************************************************)
EXTENDS Zones

-----------------------------------------------------------------------------
DelegatedAttributes == Flattened
DelegatedObserved ==
    {"fqdn", "delegateTo", "view", "zoneFormat", "comment", "disable", "locked", "nsGroup",
     "delegatedTtl", "useDelegatedTtl", "extAttrs"}
\* Mutant: a GET is not asked for the use flag.
DelegatedReturned_notFlag == DelegatedObserved \ {"useDelegatedTtl"}

DelegatedReturned == DelegatedObserved
DelegatedClusterObservation == DelegatedObserved
DelegatedNamespacedObservation == DelegatedClusterObservation
DelegatedNamespacedParameters == DelegatedParameters
DelegatedStatus ==
    [Status(DelegatedAttributes, DelegatedObserved, {},
            DelegatedClusterObservation,
            DelegatedNamespacedObservation,
            DelegatedNamespacedParameters)
       EXCEPT !.returned = DelegatedReturned]

-----------------------------------------------------------------------------
ForwardAttributes == Flattened
ForwardObserved ==
    {"fqdn", "forwardTo", "view", "zoneFormat", "comment", "disable", "forwardersOnly",
     "nsGroup", "externalNsGroup", "forwardingServers", "extAttrs"}
ForwardClusterObservation == ForwardObserved
ForwardNamespacedObservation == ForwardClusterObservation
ForwardNamespacedParameters == ForwardParameters
ForwardStatus ==
    Status(ForwardAttributes, ForwardObserved, {},
           ForwardClusterObservation,
           ForwardNamespacedObservation,
           ForwardNamespacedParameters)

-----------------------------------------------------------------------------
AuthAttributes == Flattened
AuthFields ==
    {"fqdn", "view", "zoneFormat", "comment", "disable", "useGridZoneTimer", "nsGroup",
     "extAttrs"} \cup Timers \cup Servers
AuthObserved == AuthFields
AuthReturned == AuthFields
AuthClusterRead == AuthFields
AuthNamespacedRead == AuthFields
AuthClusterObservation == AuthObserved
AuthNamespacedObservation == AuthClusterObservation
AuthNamespacedParameters == AuthParameters
AuthStatus ==
    [Status(AuthAttributes, AuthObserved, {},
            AuthClusterObservation, AuthNamespacedObservation, AuthNamespacedParameters)
       EXCEPT !.returned = AuthReturned,
              !.read = InEither(AuthClusterRead, AuthNamespacedRead)]

-----------------------------------------------------------------------------
ViewAttributes == Flattened
ViewFields == ViewParameters.required \cup ViewParameters.optional
ViewObserved == ViewFields
ViewReturned == ViewFields
ViewClusterRead == ViewFields
ViewNamespacedRead == ViewFields
ViewClusterApplied == ViewFields
ViewNamespacedApplied == ViewFields
ViewClusterShown == ViewFields
ViewNamespacedShown == ViewFields
ViewClusterObservation == ViewObserved
ViewNamespacedObservation == ViewClusterObservation
ViewNamespacedParameters == ViewParameters
ViewStatus ==
    [Status(ViewAttributes, ViewObserved, {},
            ViewClusterShown \cap ViewClusterObservation,
            ViewNamespacedShown \cap ViewNamespacedObservation,
            ViewNamespacedParameters)
       EXCEPT !.returned = ViewReturned,
              !.read = InEither(ViewClusterRead, ViewNamespacedRead),
              !.applied = InEither(ViewClusterApplied, ViewNamespacedApplied)]

ZoneStatuses ==
    [Delegated |-> DelegatedStatus, Forward |-> ForwardStatus, Auth |-> AuthStatus, View |-> ViewStatus]
=============================================================================
