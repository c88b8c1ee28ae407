------------------------------ MODULE Elements ------------------------------
(***************************************************************************)
(* Records within lists and records: an entry of forwarders, of options,   *)
(* of monitors and so on.  A list is sent and compared as a whole, entry   *)
(* by entry; each type of entry has functions of its own, that read it     *)
(* from either scope's type and write it back, exchange it with the SDK    *)
(* and compare it.  An entry is looked at here as the fields of a resource *)
(* are: it is there, in the spec and in the object, and the fields in it   *)
(* are the user's alone, since an entry replaces another one as a whole.   *)
(* Where one function both converts and exchanges, it stands for both.     *)
(***************************************************************************)
EXTENDS Fields

\* What is sent and received, and what is read as nil when it is false, 0 or empty.
Exchanging(fields, blank) ==
    [sent |-> fields, received |-> fields, blank |-> blank, joined |-> {}]

\* What is compared, and how: a field that is deep is equal only if it is nil on both
\* sides or on neither; one that is ungated is compared although its flag is off.
Comparing(fields) == [fields |-> fields, gate |-> NoFields, deep |-> {}, ungated |-> {}]

nestedSliceEqual(fields) == [Comparing(fields) EXCEPT !.deep = fields]
gatedPtrDeepEqual(fields, deep) == [Comparing(fields) EXCEPT !.deep = deep]

Element(types, required, exchanged, compared, copied) ==
    [scope \in {"cluster", "namespaced"} |->
       LET fields     == types[scope]
           parameters == [required |-> required, optional |-> fields \ required,
                          immutable |-> {}]
           kind       == [Kind(parameters, compared.gate, compared.fields, {},
                               exchanged.sent, exchanged.sent)
                            EXCEPT !.owned = fields, !.blank = exchanged.blank,
                                   !.deep = compared.deep, !.ungated = compared.ungated,
                                   !.joined = exchanged.joined]
           mirror     == [Status(NoFields, exchanged.received, {}, copied.cluster,
                                 copied.namespaced, parameters)
                            EXCEPT !.returned = exchanged.received, !.read = copied]
       IN  InScope(kind, mirror, scope)]

-----------------------------------------------------------------------------
\* Of a DNS view.
ViewNameServer ==
    {"address", "name", "sharedWithMsParentDelegation", "stealth", "tsigKey",
     "tsigKeyAlg", "tsigKeyName", "useTsigKeyName"}
ViewNameServerNamespaced == ViewNameServer
ViewNameServerExchanged == Exchanging(ViewNameServer, ViewNameServer)

\* Mutant: the pointers are compared as they are.
ViewNameServerEqual_deep ==
    [nestedSliceEqual(ViewNameServer) EXCEPT !.gate = "tsigKeyName" :> "useTsigKeyName"]

ViewNameServerEqual ==
    [Comparing(ViewNameServer) EXCEPT !.gate = "tsigKeyName" :> "useTsigKeyName"]
ViewNameServerFromCluster == ViewNameServer
ViewNameServerFromNamespaced == ViewNameServer
ViewNameServerElement ==
    Element(InEither(ViewNameServer, ViewNameServerNamespaced), {}, ViewNameServerExchanged,
            ViewNameServerEqual,
            InEither(ViewNameServerFromCluster, ViewNameServerFromNamespaced))

ViewTrustedKey == {"fqdn", "algorithm", "key", "secureEntryPoint", "dnssecMustBeSecure"}
ViewTrustedKeyNamespaced == ViewTrustedKey
ViewTrustedKeyExchanged == Exchanging(ViewTrustedKey, ViewTrustedKey)
ViewTrustedKeyFromCluster == ViewTrustedKey
ViewTrustedKeyFromNamespaced == ViewTrustedKey
ViewTrustedKeyElement ==
    Element(InEither(ViewTrustedKey, ViewTrustedKeyNamespaced), {}, ViewTrustedKeyExchanged,
            nestedSliceEqual(ViewTrustedKey),
            InEither(ViewTrustedKeyFromCluster, ViewTrustedKeyFromNamespaced))

ViewAddressAc ==
    {"address", "permission", "tsigKey", "tsigKeyAlg", "tsigKeyName", "useTsigKeyName"}
ViewAddressAcNamespaced == ViewAddressAc
ViewAddressAcExchanged == Exchanging(ViewAddressAc, ViewAddressAc)
ViewAddressAcEqual ==
    [Comparing(ViewAddressAc) EXCEPT !.gate = "tsigKeyName" :> "useTsigKeyName"]
ViewAddressAcFromCluster == ViewAddressAc
ViewAddressAcFromNamespaced == ViewAddressAc
ViewAddressAcElement ==
    Element(InEither(ViewAddressAc, ViewAddressAcNamespaced), {}, ViewAddressAcExchanged,
            ViewAddressAcEqual,
            InEither(ViewAddressAcFromCluster, ViewAddressAcFromNamespaced))

ViewFixedRrset == {"fqdn", "recordType"}
ViewFixedRrsetNamespaced == ViewFixedRrset
ViewFixedRrsetExchanged == Exchanging(ViewFixedRrset, ViewFixedRrset)
ViewFixedRrsetFromCluster == ViewFixedRrset
ViewFixedRrsetFromNamespaced == ViewFixedRrset
ViewFixedRrsetElement ==
    Element(InEither(ViewFixedRrset, ViewFixedRrsetNamespaced), {}, ViewFixedRrsetExchanged,
            nestedSliceEqual(ViewFixedRrset),
            InEither(ViewFixedRrsetFromCluster, ViewFixedRrsetFromNamespaced))

ViewExpression == {"op", "op1", "op1Type", "op2", "op2Type"}
ViewExpressionNamespaced == ViewExpression
ViewExpressionExchanged == Exchanging(ViewExpression, ViewExpression)
ViewExpressionFromCluster == ViewExpression
ViewExpressionFromNamespaced == ViewExpression
ViewExpressionElement ==
    Element(InEither(ViewExpression, ViewExpressionNamespaced), {}, ViewExpressionExchanged,
            gatedPtrDeepEqual(ViewExpression, ViewExpression),
            InEither(ViewExpressionFromCluster, ViewExpressionFromNamespaced))

ViewEaExpression == {"op", "op1", "op1Type", "op2", "op2Type"}
ViewEaExpressionNamespaced == ViewEaExpression
ViewEaExpressionExchanged == Exchanging(ViewEaExpression, ViewEaExpression)
ViewEaExpressionFromCluster == ViewEaExpression
ViewEaExpressionFromNamespaced == ViewEaExpression
ViewEaExpressionElement ==
    Element(InEither(ViewEaExpression, ViewEaExpressionNamespaced), {},
            ViewEaExpressionExchanged,
            gatedPtrDeepEqual(ViewEaExpression, ViewEaExpression),
            InEither(ViewEaExpressionFromCluster, ViewEaExpressionFromNamespaced))

ViewRateLimiting == {"enableRrl", "logOnly", "responsesPerSecond", "window", "slip"}
ViewRateLimitingNamespaced == ViewRateLimiting
ViewRateLimitingExchanged == Exchanging(ViewRateLimiting, ViewRateLimiting)
ViewRateLimitingFromCluster == ViewRateLimiting
ViewRateLimitingFromNamespaced == ViewRateLimiting
ViewRateLimitingElement ==
    Element(InEither(ViewRateLimiting, ViewRateLimitingNamespaced), {},
            ViewRateLimitingExchanged,
            gatedPtrDeepEqual(ViewRateLimiting, ViewRateLimiting),
            InEither(ViewRateLimitingFromCluster, ViewRateLimitingFromNamespaced))

ViewSortlist == {"address", "matchList"}
ViewSortlistNamespaced == ViewSortlist
ViewSortlistExchanged == Exchanging(ViewSortlist, {"address"})
ViewSortlistFromCluster == ViewSortlist
ViewSortlistFromNamespaced == ViewSortlist
ViewSortlistElement ==
    Element(InEither(ViewSortlist, ViewSortlistNamespaced), {}, ViewSortlistExchanged,
            nestedSliceEqual(ViewSortlist),
            InEither(ViewSortlistFromCluster, ViewSortlistFromNamespaced))

ViewSchedule ==
    {"weekdays", "timeZone", "recurringTime", "frequency", "every", "minutesPastHour",
     "hourOfDay", "year", "month", "dayOfMonth", "repeat", "disable"}
ViewScheduleNamespaced == ViewSchedule
ViewScheduleExchanged ==
    Exchanging(ViewSchedule, ViewSchedule \ {"weekdays", "recurringTime"})
ViewScheduleFromCluster == ViewSchedule
ViewScheduleFromNamespaced == ViewSchedule
ViewScheduleElement ==
    Element(InEither(ViewSchedule, ViewScheduleNamespaced), {}, ViewScheduleExchanged,
            gatedPtrDeepEqual(ViewSchedule, ViewSchedule),
            InEither(ViewScheduleFromCluster, ViewScheduleFromNamespaced))

ViewScavenging ==
    {"enableScavenging", "enableRecurrentScavenging", "enableAutoReclamation",
     "enableRrLastQueried", "enableZoneLastQueried", "reclaimAssociatedRecords",
     "scavengingSchedule", "expressionList", "eaExpressionList"}
ViewScavengingNamespaced == ViewScavenging
ViewScavengingExchanged ==
    Exchanging(ViewScavenging,
               ViewScavenging \ {"scavengingSchedule", "expressionList", "eaExpressionList"})
ViewScavengingFromCluster == ViewScavenging
ViewScavengingFromNamespaced == ViewScavenging
ViewScavengingElement ==
    Element(InEither(ViewScavenging, ViewScavengingNamespaced), {}, ViewScavengingExchanged,
            gatedPtrDeepEqual(ViewScavenging,
                              ViewScavenging \ {"expressionList", "eaExpressionList"}),
            InEither(ViewScavengingFromCluster, ViewScavengingFromNamespaced))

-----------------------------------------------------------------------------
\* Of zones.
AuthMember ==
    {"name", "stealth", "gridReplicate", "lead", "preferredPrimaries",
     "enablePreferredPrimaries"}
AuthMemberNamespaced == AuthMember
AuthMemberExchanged == Exchanging(AuthMember, {"name"})
AuthMemberEqual ==
    [Comparing(AuthMember) EXCEPT !.gate = "preferredPrimaries" :> "enablePreferredPrimaries"]
AuthMemberFromCluster == AuthMember
AuthMemberToCluster == AuthMember
AuthMemberFromNamespaced == AuthMember
AuthMemberToNamespaced == AuthMember
AuthMemberElement ==
    Element(InEither(AuthMember, AuthMemberNamespaced), {}, AuthMemberExchanged,
            AuthMemberEqual,
            InEither(AuthMemberFromCluster \cap AuthMemberToCluster,
                     AuthMemberFromNamespaced \cap AuthMemberToNamespaced))

AuthExternal ==
    {"address", "name", "sharedWithMsParentDelegation", "stealth", "tsigKey",
     "tsigKeyAlg", "tsigKeyName", "useTsigKeyName"}
AuthExternalNamespaced == AuthExternal
AuthExternalExchanged ==
    Exchanging(AuthExternal, {"address", "name", "tsigKey", "tsigKeyAlg", "tsigKeyName"})
AuthExternalEqual ==
    [Comparing(AuthExternal) EXCEPT !.gate = "tsigKeyName" :> "useTsigKeyName"]
AuthExternalFromCluster == AuthExternal
AuthExternalToCluster == AuthExternal
AuthExternalFromNamespaced == AuthExternal
AuthExternalToNamespaced == AuthExternal
AuthExternalElement ==
    Element(InEither(AuthExternal, AuthExternalNamespaced), {}, AuthExternalExchanged,
            AuthExternalEqual,
            InEither(AuthExternalFromCluster \cap AuthExternalToCluster,
                     AuthExternalFromNamespaced \cap AuthExternalToNamespaced))

DelegatedServer == {"name", "address"}
DelegatedServerNamespaced == DelegatedServer
DelegatedServerEqual == Comparing(DelegatedServer)
DelegatedServerFromCluster == DelegatedServer
DelegatedServerFromNamespaced == DelegatedServer
DelegatedServerElement ==
    Element(InEither(DelegatedServer, DelegatedServerNamespaced), {},
            Exchanging(DelegatedServer, {}),
            DelegatedServerEqual,
            InEither(DelegatedServerFromCluster, DelegatedServerFromNamespaced))

ForwardServer == {"name", "address"}
ForwardServerNamespaced == ForwardServer
ForwardServerEqual == Comparing(ForwardServer)
ForwardServerFromCluster == ForwardServer
ForwardServerFromNamespaced == ForwardServer
ForwardServerElement ==
    Element(InEither(ForwardServer, ForwardServerNamespaced), {},
            Exchanging(ForwardServer, {}),
            ForwardServerEqual,
            InEither(ForwardServerFromCluster, ForwardServerFromNamespaced))

ForwardMember == {"name", "forwardersOnly", "forwardTo", "useOverrideForwarders"}
ForwardMemberNamespaced == ForwardMember
ForwardMemberEqual ==
    [Comparing(ForwardMember) EXCEPT !.gate = "forwardTo" :> "useOverrideForwarders",
                          !.ungated = {"forwardTo"}]
ForwardMemberFromCluster == ForwardMember
ForwardMemberFromNamespaced == ForwardMember
ForwardMemberElement ==
    Element(InEither(ForwardMember, ForwardMemberNamespaced), {},
            Exchanging(ForwardMember, {}),
            ForwardMemberEqual,
            InEither(ForwardMemberFromCluster, ForwardMemberFromNamespaced))

-----------------------------------------------------------------------------
\* Of pools, load-balanced names and servers.
PoolServer == {"server", "ratio"}
PoolServerNamespaced == PoolServer
PoolServerExchanged == Exchanging(PoolServer, PoolServer)
PoolServerEqual == Comparing(PoolServer)
PoolServerFromCluster == PoolServer
PoolServerFromNamespaced == PoolServer
PoolServerElement ==
    Element(InEither(PoolServer, PoolServerNamespaced), {}, PoolServerExchanged,
            PoolServerEqual,
            InEither(PoolServerFromCluster, PoolServerFromNamespaced))

PoolMonitor == {"monitor"}
PoolMonitorNamespaced == PoolMonitor
PoolMonitorExchanged == Exchanging(PoolMonitor, PoolMonitor)
PoolMonitorEqual == Comparing(PoolMonitor)
PoolMonitorFromCluster == PoolMonitor
PoolMonitorFromNamespaced == PoolMonitor
PoolMonitorElement ==
    Element(InEither(PoolMonitor, PoolMonitorNamespaced), {}, PoolMonitorExchanged,
            PoolMonitorEqual,
            InEither(PoolMonitorFromCluster, PoolMonitorFromNamespaced))

PoolDynamicRatio ==
    {"method", "monitor", "monitorMetric", "monitorWeighing", "invertMonitorMetric"}
PoolDynamicRatioNamespaced == PoolDynamicRatio
PoolDynamicRatioExchanged == Exchanging(PoolDynamicRatio, PoolDynamicRatio)
PoolDynamicRatioEqual == Comparing(PoolDynamicRatio)
PoolDynamicRatioFromCluster == PoolDynamicRatio
PoolDynamicRatioFromNamespaced == PoolDynamicRatio
PoolDynamicRatioElement ==
    Element(InEither(PoolDynamicRatio, PoolDynamicRatioNamespaced), {},
            PoolDynamicRatioExchanged,
            PoolDynamicRatioEqual,
            InEither(PoolDynamicRatioFromCluster, PoolDynamicRatioFromNamespaced))

LBDNPool == {"pool", "ratio"}
LBDNPoolNamespaced == LBDNPool
LBDNPoolExchanged == Exchanging(LBDNPool, LBDNPool)
LBDNPoolEqual == Comparing(LBDNPool)
LBDNPoolFromCluster == LBDNPool
LBDNPoolFromNamespaced == LBDNPool
LBDNPoolElement ==
    Element(InEither(LBDNPool, LBDNPoolNamespaced), {}, LBDNPoolExchanged,
            LBDNPoolEqual,
            InEither(LBDNPoolFromCluster, LBDNPoolFromNamespaced))

ServerMonitor == {"monitor", "host"}
ServerMonitorNamespaced == ServerMonitor
ServerMonitorExchanged == Exchanging(ServerMonitor, ServerMonitor)
ServerMonitorEqual == Comparing(ServerMonitor)
ServerMonitorFromCluster == ServerMonitor
ServerMonitorFromNamespaced == ServerMonitor
ServerMonitorElement ==
    Element(InEither(ServerMonitor, ServerMonitorNamespaced), {}, ServerMonitorExchanged,
            ServerMonitorEqual,
            InEither(ServerMonitorFromCluster, ServerMonitorFromNamespaced))

-----------------------------------------------------------------------------
\* Of addresses, hosts, templates, shared networks, name servers and attributes.
FixedOption == {"name", "num", "vendorClass", "value", "useOption"}
FixedOptionNamespaced == FixedOption
FixedOptionExchanged == Exchanging(FixedOption, {})
FixedOptionEqual == Comparing(FixedOption)
FixedOptionFromCluster == FixedOption
FixedOptionFromNamespaced == FixedOption
FixedOptionElement ==
    Element(InEither(FixedOption, FixedOptionNamespaced), {}, FixedOptionExchanged,
            FixedOptionEqual,
            InEither(FixedOptionFromCluster, FixedOptionFromNamespaced))

TemplateOption == {"name", "num", "vendorClass", "value", "useOption"}
TemplateOptionNamespaced == TemplateOption
TemplateOptionExchanged == Exchanging(TemplateOption, {})
TemplateOptionEqual == Comparing(TemplateOption)
TemplateOptionFromCluster == TemplateOption
TemplateOptionFromNamespaced == TemplateOption
TemplateOptionElement ==
    Element(InEither(TemplateOption, TemplateOptionNamespaced), {}, TemplateOptionExchanged,
            TemplateOptionEqual,
            InEither(TemplateOptionFromCluster, TemplateOptionFromNamespaced))

TemplateMember == {"ipv4Addr", "ipv6Addr", "name"}
TemplateMemberNamespaced == TemplateMember
TemplateMemberExchanged == Exchanging(TemplateMember, {})
TemplateMemberEqual == Comparing(TemplateMember)
TemplateMemberFromCluster == TemplateMember
TemplateMemberFromNamespaced == TemplateMember
TemplateMemberElement ==
    Element(InEither(TemplateMember, TemplateMemberNamespaced), {}, TemplateMemberExchanged,
            TemplateMemberEqual,
            InEither(TemplateMemberFromCluster, TemplateMemberFromNamespaced))

SharedOption == {"name", "num", "vendorClass", "value", "useOption"}
SharedOptionNamespaced == SharedOption
SharedOptionExchanged == Exchanging(SharedOption, SharedOption)
SharedOptionEqual == Comparing(SharedOption)
SharedOptionFromCluster == SharedOption
SharedOptionFromNamespaced == SharedOption
SharedOptionElement ==
    Element(InEither(SharedOption, SharedOptionNamespaced), {}, SharedOptionExchanged,
            SharedOptionEqual,
            InEither(SharedOptionFromCluster, SharedOptionFromNamespaced))

GlueAddress == {"address", "autoCreatePtr"}
GlueAddressNamespaced == GlueAddress
GlueAddressExchanged == Exchanging(GlueAddress, {})
GlueAddressEqual == Comparing(GlueAddress)
GlueAddressFromCluster == GlueAddress
GlueAddressFromNamespaced == GlueAddress
GlueAddressElement ==
    Element(InEither(GlueAddress, GlueAddressNamespaced), {}, GlueAddressExchanged,
            GlueAddressEqual,
            InEither(GlueAddressFromCluster, GlueAddressFromNamespaced))

HostIpv4 == {"ipv4Addr", "mac", "configureForDhcp", "nextServer"}
HostIpv4Namespaced == HostIpv4
HostIpv4Received == HostIpv4
HostIpv4Sent == {"ipv4Addr", "mac"}
HostIpv4Equal == HostIpv4Sent \cup {"configureForDhcp"}
HostIpv4FromCluster == HostIpv4
HostIpv4FromNamespaced == HostIpv4

\* The flag of the IPv6 entry is configureForDhcp there too.
HostIpv6 == {"ipv6Addr", "duid", "configureForDhcpV6"}
HostIpv6Namespaced == HostIpv6
HostIpv6Received == HostIpv6
HostIpv6Sent == {"ipv6Addr", "duid"}
HostIpv6Equal == HostIpv6Sent \cup {"configureForDhcpV6"}
HostIpv6FromCluster == HostIpv6
HostIpv6FromNamespaced == HostIpv6

\* A request carries one flag for the entries of either family: it is on if the flag of
\* one of them is.
HostEnableDhcp == {"configureForDhcp", "configureForDhcpV6"}

\* A host's entry of either family at once.
HostAddressesElement ==
    Element(InEither(HostIpv4 \cup HostIpv6, HostIpv4Namespaced \cup HostIpv6Namespaced),
            {"ipv4Addr", "ipv6Addr"},
            [sent |-> HostIpv4Sent \cup HostIpv6Sent \cup HostEnableDhcp,
             received |-> HostIpv4Received \cup HostIpv6Received, blank |-> {},
             joined |-> HostEnableDhcp],
            Comparing(HostIpv4Equal \cup HostIpv6Equal),
            InEither(HostIpv4FromCluster \cup HostIpv6FromCluster,
                     HostIpv4FromNamespaced \cup HostIpv6FromNamespaced))

ListValue == {"value"}
ListValueNamespaced == ListValue
ListValueExchanged == Exchanging(ListValue, {})
ListValueFromCluster == ListValue
ListValueFromNamespaced == ListValue
ListValueElement ==
    Element(InEither(ListValue, ListValueNamespaced), {"value"}, ListValueExchanged,
            Comparing(ListValue),
            InEither(ListValueFromCluster, ListValueFromNamespaced))

-----------------------------------------------------------------------------
ElementTables ==
    [ViewNameServer |-> ViewNameServerElement,
     ViewTrustedKey |-> ViewTrustedKeyElement,
     ViewAddressAc |-> ViewAddressAcElement,
     ViewFixedRrset |-> ViewFixedRrsetElement,
     ViewExpression |-> ViewExpressionElement,
     ViewEaExpression |-> ViewEaExpressionElement,
     ViewRateLimiting |-> ViewRateLimitingElement,
     ViewSortlist |-> ViewSortlistElement,
     ViewSchedule |-> ViewScheduleElement,
     ViewScavenging |-> ViewScavengingElement,
     AuthMember |-> AuthMemberElement,
     AuthExternal |-> AuthExternalElement,
     DelegatedServer |-> DelegatedServerElement,
     ForwardServer |-> ForwardServerElement,
     ForwardMember |-> ForwardMemberElement,
     PoolServer |-> PoolServerElement,
     PoolMonitor |-> PoolMonitorElement,
     PoolDynamicRatio |-> PoolDynamicRatioElement,
     LBDNPool |-> LBDNPoolElement,
     ServerMonitor |-> ServerMonitorElement,
     FixedOption |-> FixedOptionElement,
     TemplateOption |-> TemplateOptionElement,
     TemplateMember |-> TemplateMemberElement,
     SharedOption |-> SharedOptionElement,
     GlueAddress |-> GlueAddressElement,
     HostAddresses |-> HostAddressesElement,
     ListValue |-> ListValueElement]

\* The types whose entries are compared at face value: nil is unlike false, 0 and "",
\* or a field counts whose flag is off.  To add one is to add an entry that may never
\* settle.
TakenAtFace ==
    {"ViewTrustedKey", "ViewFixedRrset", "ViewExpression", "ViewEaExpression",
     "ViewRateLimiting", "ViewSortlist", "ViewSchedule", "ViewScavenging", "ForwardMember"}

ElementKinds ==
    [n \in (DOMAIN ElementTables) \X {"cluster", "namespaced"} |-> ElementTables[n[1]][n[2]]]
=============================================================================
