------------------------------- MODULE Zones --------------------------------
(***************************************************************************)
(* The kinds of zones, and DNS views.                                      *)
(***************************************************************************)
EXTENDS Fields

-----------------------------------------------------------------------------
DelegatedParameters ==
    [required  |-> {"fqdn", "delegateTo"},
     optional  |-> {"view", "zoneFormat", "comment", "disable", "locked", "nsGroup",
                    "useDelegatedTtl", "delegatedTtl", "extAttrs"},
     immutable |-> {"fqdn", "view", "zoneFormat"}]
DelegatedCompared ==
    {"delegateTo", "comment", "disable", "locked", "nsGroup", "useDelegatedTtl",
     "delegatedTtl", "extAttrs"}
DelegatedLateInitialized ==
    {"comment", "nsGroup", "disable", "locked", "useDelegatedTtl", "delegatedTtl", "extAttrs",
     "view", "zoneFormat"}
DelegatedCreated ==
    {"fqdn", "delegateTo", "comment", "disable", "locked", "nsGroup", "delegatedTtl",
     "useDelegatedTtl", "extAttrs", "view", "zoneFormat"}
DelegatedUpdated ==
    {"delegateTo", "comment", "disable", "locked", "nsGroup", "delegatedTtl",
     "useDelegatedTtl", "extAttrs"}
Delegated ==
    Kind(DelegatedParameters, [delegatedTtl |-> "useDelegatedTtl"], DelegatedCompared,
         DelegatedLateInitialized, DelegatedCreated, DelegatedUpdated)

-----------------------------------------------------------------------------
\* The forwarding servers are the user's: they are compared, and not filled in.
ForwardParameters ==
    [required  |-> {"fqdn", "forwardTo"},
     optional  |-> {"view", "zoneFormat", "comment", "disable", "forwardersOnly", "nsGroup",
                    "externalNsGroup", "forwardingServers", "extAttrs"},
     immutable |-> {"fqdn", "view", "zoneFormat"}]
ForwardCompared ==
    {"forwardTo", "forwardingServers", "comment", "disable", "forwardersOnly", "nsGroup",
     "externalNsGroup", "extAttrs"}
ForwardLateInitialized ==
    {"comment", "nsGroup", "externalNsGroup", "disable", "forwardersOnly", "extAttrs", "view",
     "zoneFormat"}
ForwardCreated ==
    {"comment", "disable", "extAttrs", "forwardTo", "forwardersOnly", "forwardingServers",
     "fqdn", "nsGroup", "view", "zoneFormat", "externalNsGroup"}
ForwardUpdated ==
    {"comment", "disable", "extAttrs", "forwardTo", "forwardersOnly", "forwardingServers",
     "nsGroup", "externalNsGroup"}
Forward ==
    [Kind(ForwardParameters, NoFields, ForwardCompared, ForwardLateInitialized,
          ForwardCreated, ForwardUpdated)
       EXCEPT !.owned = {"forwardingServers"}]

-----------------------------------------------------------------------------
(***************************************************************************)
(* The five timers of an authoritative zone have one flag, which counts as *)
(* on when the spec has any of them.  The zone has a primary: the Grid     *)
(* keeps no timers for one that has none.                                  *)
(***************************************************************************)
Servers == {"gridPrimary", "gridSecondaries", "externalPrimaries", "externalSecondaries"}

AuthParameters ==
    [required  |-> {"fqdn"},
     optional  |-> {"view", "zoneFormat", "comment", "disable", "useGridZoneTimer", "nsGroup",
                    "extAttrs"} \cup Timers \cup Servers,
     immutable |-> {"fqdn", "view", "zoneFormat"}]
AuthCompared ==
    {"comment", "disable", "useGridZoneTimer", "nsGroup", "extAttrs"} \cup Timers \cup Servers
AuthLateInitialized ==
    {"comment", "disable", "useGridZoneTimer", "nsGroup", "extAttrs"} \cup Timers \cup Servers
AuthCreated ==
    {"fqdn", "view", "zoneFormat", "comment", "disable", "useGridZoneTimer", "nsGroup",
     "extAttrs"} \cup Timers \cup Servers
AuthUpdated ==
    {"comment", "disable", "useGridZoneTimer", "nsGroup", "extAttrs"} \cup Timers \cup Servers
Auth ==
    [Kind(AuthParameters, [f \in Timers |-> "useGridZoneTimer"], AuthCompared,
          AuthLateInitialized, AuthCreated, AuthUpdated)
       EXCEPT !.forced = {"useGridZoneTimer"}, !.omitsUnset = AuthParameters.optional,
              !.omitsEmpty = Servers]

-----------------------------------------------------------------------------
(***************************************************************************)
(* The settings of a DNS view are governed in groups.                      *)
(***************************************************************************)
SettingsOf ==
    [useBlacklist |-> {"blacklistAction", "blacklistLogQuery", "blacklistRedirectAddresses",
        "blacklistRedirectTtl", "blacklistRulesets", "enableBlacklist"},
     useRootNameServer |-> {"rootNameServerType", "customRootNameServers"},
     useDdnsForceCreationTimestampUpdate |-> {"ddnsForceCreationTimestampUpdate"},
     useDdnsPrincipalSecurity |->
        {"ddnsPrincipalGroup", "ddnsPrincipalTracking", "ddnsRestrictSecure"},
     useDdnsPatternsRestriction |-> {"ddnsRestrictPatterns", "ddnsRestrictPatternsList"},
     useDdnsRestrictProtected |-> {"ddnsRestrictProtected"},
     useDdnsRestrictStatic |-> {"ddnsRestrictStatic"},
     useDns64 |-> {"dns64Enabled", "dns64Groups"},
     useDnssec |-> {"dnssecEnabled", "dnssecExpiredSignaturesEnabled",
        "dnssecValidationEnabled", "dnssecTrustedKeys"},
     useFixedRrsetOrderFqdns |-> {"enableFixedRrsetOrderFqdns", "fixedRrsetOrderFqdns"},
     useFilterAaaa |-> {"filterAaaa", "filterAaaaList"},
     useForwarders |-> {"forwardOnly", "forwarders"},
     useLameTtl |-> {"lameTtl"}, useMaxCacheTtl |-> {"maxCacheTtl"},
     useMaxNcacheTtl |-> {"maxNcacheTtl"},
     useNxdomainRedirect |-> {"nxdomainLogQuery", "nxdomainRedirect",
        "nxdomainRedirectAddresses", "nxdomainRedirectAddressesV6", "nxdomainRedirectTtl",
        "nxdomainRulesets"},
     useRecursion |-> {"recursion"},
     useRpzDropIPRule |-> {"rpzDropIPRuleEnabled", "rpzDropIPRuleMinPrefixLengthIPv4",
        "rpzDropIPRuleMinPrefixLengthIPv6"},
     useRpzQnameWaitRecurse |-> {"rpzQnameWaitRecurse"}, useSortlist |-> {"sortlist"},
     useResponseRateLimiting |-> {"responseRateLimiting"},
     useScavengingSettings |-> {"scavengingSettings"}]
Settings == UNION {SettingsOf[flag] : flag \in DOMAIN SettingsOf}
ViewGate == [f \in Settings |-> CHOOSE flag \in DOMAIN SettingsOf : f \in SettingsOf[flag]]

ViewParameters ==
    [required  |-> {"name"},
     optional  |-> {"comment", "networkView", "disable", "extAttrs", "matchClients",
                    "matchDestinations", "enableMatchRecursiveOnly", "notifyDelay",
                    "dnssecNegativeTrustAnchors"} \cup DOMAIN SettingsOf \cup Settings,
     immutable |-> {}]
ViewCompared        == {"name"} \cup ViewParameters.optional
ViewLateInitialized == ViewParameters.optional
ViewBuilt           == {"name"} \cup ViewParameters.optional
View ==
    [Kind(ViewParameters, ViewGate, ViewCompared, ViewLateInitialized, ViewBuilt, ViewBuilt)
       EXCEPT !.omitsUnset = ViewParameters.optional]

ZoneKinds == [Delegated |-> Delegated, Forward |-> Forward, Auth |-> Auth, View |-> View]
=============================================================================
