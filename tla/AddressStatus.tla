---------------------------- MODULE AddressStatus ---------------------------
(***************************************************************************)
(* The status of networks, ranges, addresses and attribute definitions.    *)
(***************************************************************************)
EXTENDS Networks

-----------------------------------------------------------------------------
NetworkViewAttributes == Flattened
NetworkViewObserved == {"name", "comment", "extAttrs"}
NetworkViewReturned == {"name", "comment", "extAttrs"}
NetworkViewClusterObservation == NetworkViewObserved
NetworkViewNamespacedObservation == NetworkViewClusterObservation
NetworkViewNamespacedParameters == NetworkViewParameters
NetworkViewStatus ==
    [Status(NetworkViewAttributes, NetworkViewObserved, {},
            NetworkViewClusterObservation,
            NetworkViewNamespacedObservation,
            NetworkViewNamespacedParameters)
       EXCEPT !.returned = NetworkViewReturned]

-----------------------------------------------------------------------------
\* What a network was carved out of the status has room for, and is not told.
NetworkAttributes == Flattened
NetworkObserved == {"networkView", "network", "comment", "extAttrs"}
NetworkClusterObservation == NetworkObserved \cup {"parentCidr", "filterParams", "object"}
NetworkNamespacedObservation == NetworkClusterObservation
NetworkNamespacedParameters == NetworkParameters
NetworkStatus ==
    Status(NetworkAttributes, NetworkObserved, {},
           NetworkClusterObservation,
           NetworkNamespacedObservation,
           NetworkNamespacedParameters)

-----------------------------------------------------------------------------
NetworkContainerAttributes == Flattened
NetworkContainerObserved == {"networkView", "network", "comment", "extAttrs"}
NetworkContainerClusterObservation ==
    NetworkContainerObserved \cup {"parentCidr", "filterParams"}
NetworkContainerNamespacedObservation == NetworkContainerClusterObservation
NetworkContainerNamespacedParameters == NetworkContainerParameters
NetworkContainerStatus ==
    Status(NetworkContainerAttributes, NetworkContainerObserved, {},
           NetworkContainerClusterObservation,
           NetworkContainerNamespacedObservation,
           NetworkContainerNamespacedParameters)

-----------------------------------------------------------------------------
RangeAttributes == Flattened
RangeObserved == {"startAddr", "endAddr", "networkView", "network", "comment", "extAttrs"}
RangeClusterObservation == RangeObserved \cup {"template"}
RangeNamespacedObservation == RangeClusterObservation
RangeNamespacedParameters == RangeParameters
RangeStatus ==
    Status(RangeAttributes, RangeObserved, {"template"},
           RangeClusterObservation, RangeNamespacedObservation, RangeNamespacedParameters)

-----------------------------------------------------------------------------
RangeTemplateAttributes == Flattened
RangeTemplateObserved ==
    {"name", "numberOfAddresses", "offset", "comment", "extAttrs", "useOptions", "options",
     "serverAssociationType", "failoverAssociation", "member"}
RangeTemplateClusterObservation == RangeTemplateObserved
RangeTemplateNamespacedObservation == RangeTemplateClusterObservation
RangeTemplateNamespacedParameters == RangeTemplateParameters
RangeTemplateStatus ==
    Status(RangeTemplateAttributes, RangeTemplateObserved, {},
           RangeTemplateClusterObservation,
           RangeTemplateNamespacedObservation,
           RangeTemplateNamespacedParameters)

-----------------------------------------------------------------------------
SharedNetworkAttributes == Flattened
SharedNetworkObserved ==
    {"name", "networks", "networkView", "comment", "extAttrs", "disable", "useOptions",
     "options"}
SharedNetworkClusterObservation == SharedNetworkObserved
SharedNetworkNamespacedObservation == SharedNetworkClusterObservation
SharedNetworkNamespacedParameters == SharedNetworkParameters
SharedNetworkStatus ==
    Status(SharedNetworkAttributes, SharedNetworkObserved, {},
           SharedNetworkClusterObservation,
           SharedNetworkNamespacedObservation,
           SharedNetworkNamespacedParameters)

-----------------------------------------------------------------------------
\* For IPv6, the mac is what the GET calls DUID.
FixedAddressAttributes == Flattened
FixedAddressObserved ==
    {"ipv4addr", "mac", "networkView", "network", "name", "matchClient", "comment", "extAttrs",
     "disable", "agentCircuitId", "agentRemoteId", "clientIdentifierPrependZero",
     "dhcpClientIdentifier", "useOptions", "options"}
FixedAddressFields == FixedAddressParameters.optional
FixedAddressClusterRead == FixedAddressFields
FixedAddressNamespacedRead == FixedAddressFields
FixedAddressClusterApplied == FixedAddressFields
FixedAddressNamespacedApplied == FixedAddressFields
FixedAddressClusterObservation == FixedAddressObserved
FixedAddressNamespacedObservation == FixedAddressClusterObservation
FixedAddressNamespacedParameters == FixedAddressParameters
FixedAddressStatus ==
    [Status(FixedAddressAttributes, FixedAddressObserved, {},
            FixedAddressClusterObservation,
            FixedAddressNamespacedObservation,
            FixedAddressNamespacedParameters)
       EXCEPT !.read = InEither(FixedAddressClusterRead, FixedAddressNamespacedRead),
              !.applied = InEither(FixedAddressClusterApplied, FixedAddressNamespacedApplied)]

-----------------------------------------------------------------------------
AttributeObserved ==
    {"name", "type", "comment", "defaultValue", "flags", "min", "max", "listValues",
     "allowedObjectTypes"}
AttributeReturned == AttributeObserved
AttributeClusterObservation == AttributeObserved
AttributeNamespacedObservation == AttributeClusterObservation
AttributeNamespacedParameters == AttributeParameters
AttributeStatus ==
    [Status(NoFields, AttributeObserved, {},
            AttributeClusterObservation,
            AttributeNamespacedObservation,
            AttributeNamespacedParameters)
       EXCEPT !.returned = AttributeReturned]

\* One of either family has the other field, and is otherwise the same.
FixedIPv6AddressStatus ==
    Status(FixedAddressAttributes, IPv6(FixedAddressObserved), {},
           IPv6(FixedAddressClusterObservation), IPv6(FixedAddressNamespacedObservation),
           [FixedAddressNamespacedParameters EXCEPT !.required = {"mac"},
                                                    !.optional = IPv6(@ \ {"mac"})])

AddressStatuses ==
    [NetworkView |-> NetworkViewStatus, Network |-> NetworkStatus,
     NetworkContainer |-> NetworkContainerStatus, Range |-> RangeStatus,
     RangeTemplate |-> RangeTemplateStatus, SharedNetwork |-> SharedNetworkStatus,
     FixedAddress |-> FixedAddressStatus, FixedIPv6Address |-> FixedIPv6AddressStatus,
     Attribute |-> AttributeStatus]
=============================================================================
