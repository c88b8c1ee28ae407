---------------------------- MODULE TrafficStatus ---------------------------
(***************************************************************************)
(* The status of the kinds of DNS traffic control.                         *)
(***************************************************************************)
EXTENDS DTC

-----------------------------------------------------------------------------
ServerAttributes == Flattened
ServerObserved ==
    {"name", "host", "comment", "disable", "autoCreateHostRecord", "sniHostname",
     "useSniHostname", "monitors", "extAttrs"}
ServerClusterObservation == ServerObserved
ServerNamespacedObservation == ServerClusterObservation
ServerNamespacedParameters == ServerParameters
ServerStatus ==
    Status(ServerAttributes, ServerObserved, {},
           ServerClusterObservation,
           ServerNamespacedObservation,
           ServerNamespacedParameters)

-----------------------------------------------------------------------------
\* The SDK's own list of fields has one that this Grid does not know.
PoolAttributes == Flattened
PoolObserved ==
    {"name", "servers", "monitors", "extAttrs", "lbDynamicRatioPreferred",
     "lbDynamicRatioAlternate", "lbPreferredMethod", "lbAlternateMethod", "availability",
     "quorum", "lbPreferredTopology", "lbAlternateTopology", "comment", "disable", "ttl",
     "useTtl"}
PoolReturned == PoolObserved
PoolClusterObservation == PoolObserved
PoolNamespacedObservation == PoolClusterObservation
PoolNamespacedParameters == PoolParameters
PoolStatus ==
    [Status(PoolAttributes, PoolObserved, {},
            PoolClusterObservation, PoolNamespacedObservation, PoolNamespacedParameters)
       EXCEPT !.returned = PoolReturned]

-----------------------------------------------------------------------------
LBDNAttributes == Flattened
LBDNObserved ==
    {"name", "patterns", "pools", "authZones", "types", "extAttrs", "lbMethod", "priority",
     "persistence", "topology", "ttl", "useTtl", "comment", "disable"}
LBDNReturned == LBDNObserved
LBDNClusterObservation == LBDNObserved
LBDNNamespacedObservation == LBDNClusterObservation
LBDNNamespacedParameters == LBDNParameters
LBDNStatus ==
    [Status(LBDNAttributes, LBDNObserved, {},
            LBDNClusterObservation, LBDNNamespacedObservation, LBDNNamespacedParameters)
       EXCEPT !.returned = LBDNReturned]

TrafficStatuses ==
    [Server |-> ServerStatus, Pool |-> PoolStatus, LBDN |-> LBDNStatus]
=============================================================================
