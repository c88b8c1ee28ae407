-------------------------------- MODULE DTC ---------------------------------
(***************************************************************************)
(* The kinds of DNS traffic control.  A PUT of a pool or an LBDN carries   *)
(* every field that is set, and the lists whether they have entries or     *)
(* not.                                                                    *)
(***************************************************************************)
EXTENDS Fields

-----------------------------------------------------------------------------
ServerParameters ==
    [required  |-> {"name", "host"},
     optional  |-> {"comment", "disable", "autoCreateHostRecord", "useSniHostname",
                    "sniHostname", "monitors", "extAttrs"},
     immutable |-> {}]
ServerCompared ==
    {"name", "host", "comment", "disable", "autoCreateHostRecord", "useSniHostname",
     "sniHostname", "monitors", "extAttrs"}
ServerLateInitialized ==
    {"comment", "disable", "autoCreateHostRecord", "useSniHostname", "sniHostname",
     "monitors", "extAttrs"}
ServerCreated ==
    {"comment", "name", "host", "autoCreateHostRecord", "disable", "extAttrs", "monitors",
     "sniHostname", "useSniHostname"}
ServerUpdated ==
    {"comment", "name", "host", "autoCreateHostRecord", "disable", "extAttrs", "monitors",
     "sniHostname", "useSniHostname"}
Server == Kind(ServerParameters, [sniHostname |-> "useSniHostname"], ServerCompared,
               ServerLateInitialized, ServerCreated, ServerUpdated)

-----------------------------------------------------------------------------
(***************************************************************************)
(* What the Grid reports of the alternate method as "NONE" is empty here:  *)
(* it is not filled in, and the Grid refuses it in a request.              *)
(***************************************************************************)
PoolParameters ==
    [required  |-> {"name", "lbPreferredMethod"},
     optional  |-> {"lbAlternateMethod", "servers", "availability", "quorum", "useTtl", "ttl",
                    "lbPreferredTopology", "lbAlternateTopology", "lbDynamicRatioPreferred",
                    "lbDynamicRatioAlternate", "monitors", "comment", "disable", "extAttrs"},
     immutable |-> {}]
PoolScalarsCompared ==
    {"name", "lbPreferredMethod", "lbAlternateMethod", "comment", "availability",
     "lbPreferredTopology", "lbAlternateTopology", "quorum", "disable", "useTtl", "ttl"}
PoolCollectionsCompared ==
    {"servers", "monitors", "lbDynamicRatioPreferred", "lbDynamicRatioAlternate", "extAttrs"}
PoolLateInitialized ==
    {"comment", "disable", "availability", "quorum", "useTtl", "ttl", "extAttrs",
     "lbAlternateMethod", "lbPreferredTopology", "lbAlternateTopology",
     "lbDynamicRatioPreferred", "lbDynamicRatioAlternate"}
PoolBuilt == {"name"} \cup PoolScalarsCompared \cup PoolCollectionsCompared
Pool ==
    [Kind(PoolParameters, [ttl |-> "useTtl"], PoolScalarsCompared \cup PoolCollectionsCompared,
          PoolLateInitialized, PoolBuilt, PoolBuilt)
       EXCEPT !.owned = {"servers", "monitors"},
              !.omitsUnset = {"comment", "quorum", "lbPreferredTopology", "disable", "ttl",
                "lbDynamicRatioPreferred", "lbAlternateTopology", "lbDynamicRatioAlternate",
                "useTtl"},
              !.omitsEmpty = {"lbAlternateMethod"}]

-----------------------------------------------------------------------------
\* Pools and zones are the user's.  Types are too, but the Grid has a default.
LBDNParameters ==
    [required  |-> {"name", "lbMethod", "patterns"},
     optional  |-> {"pools", "authZones", "types", "priority", "persistence", "topology",
                    "useTtl", "ttl", "comment", "disable", "extAttrs"},
     immutable |-> {}]
LBDNScalarsCompared ==
    {"name", "lbMethod", "priority", "persistence", "topology", "useTtl", "ttl", "comment",
     "disable"}
LBDNCollectionsCompared == {"patterns", "pools", "authZones", "types", "extAttrs"}
LBDNLateInitialized ==
    {"priority", "persistence", "topology", "useTtl", "ttl", "comment", "disable", "extAttrs"}
LBDNBuilt ==
    {"name", "lbMethod", "patterns", "pools", "authZones", "types", "priority", "persistence",
     "topology", "ttl", "useTtl", "comment", "disable", "extAttrs"}
LBDN ==
    [Kind(LBDNParameters, [ttl |-> "useTtl"], LBDNScalarsCompared \cup LBDNCollectionsCompared,
          LBDNLateInitialized, LBDNBuilt, LBDNBuilt)
       EXCEPT !.owned = {"pools", "authZones"}, !.whenSet = {"types"},
              !.omitsUnset = {"priority", "persistence", "topology", "ttl", "useTtl",
                "comment", "disable"},
              !.omitsEmpty = {"types"}]

TrafficKinds == [Server |-> Server, Pool |-> Pool, LBDN |-> LBDN]
=============================================================================
