------------------------------ MODULE Networks ------------------------------
(***************************************************************************)
(* The kinds of address management and DHCP, and the definition of an      *)
(* extensible attribute.                                                   *)
(***************************************************************************)
EXTENDS Fields

-----------------------------------------------------------------------------
NetworkViewParameters ==
    [required |-> {"name"}, optional |-> {"comment", "extAttrs"}, immutable |-> {}]
NetworkViewCompared        == {"name", "comment", "extAttrs"}
NetworkViewLateInitialized == {"comment", "extAttrs"}
NetworkViewCreated         == {"name", "comment", "extAttrs"}
NetworkViewUpdated         == {"name", "comment", "extAttrs"}
NetworkView == Kind(NetworkViewParameters, NoFields, NetworkViewCompared,
                    NetworkViewLateInitialized, NetworkViewCreated, NetworkViewUpdated)

-----------------------------------------------------------------------------
(***************************************************************************)
(* A network that is carved out of another one learns its own address by   *)
(* late initialization.  That a spec says how to find one is the CRD's     *)
(* concern, and allocatePrefixLen goes with parentCidr or filterParams.    *)
(***************************************************************************)
NetworkParameters ==
    [required  |-> {"networkView"},
     optional  |-> {"network", "parentCidr", "filterParams", "object", "comment", "extAttrs"},
     immutable |-> {"networkView", "network"}]
NetworkCompared        == {"comment", "extAttrs"}
NetworkLateInitialized == {"network", "comment", "extAttrs"}
NetworkCreated         == {"networkView", "network", "parentCidr", "filterParams", "object",
                           "comment", "extAttrs"}
NetworkUpdated         == {"comment", "extAttrs"}
Network == Kind(NetworkParameters, NoFields, NetworkCompared, NetworkLateInitialized,
                NetworkCreated, NetworkUpdated)

NetworkContainerParameters ==
    [required  |-> {"networkView"},
     optional  |-> {"network", "parentCidr", "filterParams", "comment", "extAttrs"},
     immutable |-> {"networkView", "network"}]
NetworkContainerCompared        == {"comment", "extAttrs"}
NetworkContainerLateInitialized == {"network", "comment", "extAttrs"}
NetworkContainerCreated         == {"networkView", "network", "parentCidr", "filterParams",
                                    "comment", "extAttrs"}
NetworkContainerUpdated         == {"comment", "extAttrs"}
NetworkContainer ==
    Kind(NetworkContainerParameters, NoFields, NetworkContainerCompared,
         NetworkContainerLateInitialized, NetworkContainerCreated, NetworkContainerUpdated)

-----------------------------------------------------------------------------
RangeParameters ==
    [required  |-> {"startAddr", "endAddr"},
     optional  |-> {"networkView", "network", "template", "comment", "extAttrs"},
     immutable |-> {"template"}]
RangeCompared        == {"startAddr", "endAddr", "networkView", "network", "comment", "extAttrs"}
RangeLateInitialized == {"networkView", "network", "comment", "extAttrs"}
RangeCreated         == RangeCompared \cup {"template"}
RangeUpdated         == {"startAddr", "endAddr", "networkView", "network", "comment", "extAttrs"}
DHCPRange == Kind(RangeParameters, NoFields, RangeCompared, RangeLateInitialized,
                  RangeCreated, RangeUpdated)

-----------------------------------------------------------------------------
(***************************************************************************)
(* msServer is sent and never reported, and cloudApiCompatible is always   *)
(* sent as true: neither is the spec's to say.                             *)
(***************************************************************************)
OptionsGate == [options |-> "useOptions"]

RangeTemplateParameters ==
    [required  |-> {"name", "numberOfAddresses", "offset"},
     optional  |-> {"comment", "extAttrs", "useOptions", "options", "serverAssociationType",
                    "failoverAssociation", "member"},
     immutable |-> {}]
RangeTemplateCompared ==
    {"name", "numberOfAddresses", "offset", "comment", "extAttrs", "useOptions", "options",
     "serverAssociationType", "failoverAssociation", "member"}
RangeTemplateLateInitialized ==
    {"comment", "extAttrs", "useOptions", "options", "serverAssociationType",
     "failoverAssociation", "member"}
RangeTemplateCreated ==
    {"name", "numberOfAddresses", "offset", "comment", "extAttrs", "useOptions", "options",
     "serverAssociationType", "failoverAssociation", "member"}
RangeTemplateUpdated ==
    {"name", "numberOfAddresses", "offset", "comment", "extAttrs", "useOptions", "options",
     "serverAssociationType", "failoverAssociation", "member"}
RangeTemplate ==
    Kind(RangeTemplateParameters, OptionsGate, RangeTemplateCompared,
         RangeTemplateLateInitialized, RangeTemplateCreated, RangeTemplateUpdated)

-----------------------------------------------------------------------------
SharedNetworkParameters ==
    [required  |-> {"name", "networks"},
     optional  |-> {"networkView", "comment", "extAttrs", "disable", "useOptions", "options"},
     immutable |-> {"networkView"}]
SharedNetworkCompared ==
    {"name", "networks", "comment", "extAttrs", "disable", "useOptions", "options"}
SharedNetworkLateInitialized ==
    {"networkView", "comment", "extAttrs", "disable", "useOptions", "options"}
SharedNetworkCreated ==
    {"name", "networks", "networkView", "comment", "extAttrs", "disable", "useOptions",
     "options"}
\* The network view goes along for the SDK to look the networks up with.
SharedNetworkUpdated ==
    {"name", "networks", "comment", "extAttrs", "disable", "useOptions", "options"}
SharedNetwork ==
    Kind(SharedNetworkParameters, OptionsGate, SharedNetworkCompared,
         SharedNetworkLateInitialized, SharedNetworkCreated, SharedNetworkUpdated)

-----------------------------------------------------------------------------
(***************************************************************************)
(* A fixed address is of one family, by which of the addresses its spec    *)
(* has; unset stands for the "" that has the Grid choose it.  For IPv6 the *)
(* mac is the client's DUID: AllocateIP refuses an empty one, and a GET    *)
(* answers it in another field, from which it is not filled in.            *)
(***************************************************************************)
FixedAddressParameters ==
    [required  |-> {},
     optional  |-> {"ipv4addr", "mac", "networkView", "network", "name", "matchClient",
                    "comment", "extAttrs", "disable", "agentCircuitId", "agentRemoteId",
                    "clientIdentifierPrependZero", "dhcpClientIdentifier", "useOptions",
                    "options"},
     immutable |-> {}]
FixedAddressCompared        == FixedAddressParameters.optional
FixedAddressLateInitialized == FixedAddressParameters.optional
FixedAddressCreated         == FixedAddressParameters.optional
FixedAddressUpdated         == FixedAddressParameters.optional
FixedAddress ==
    [Kind(FixedAddressParameters, OptionsGate, FixedAddressCompared,
          FixedAddressLateInitialized, FixedAddressCreated, FixedAddressUpdated)
       EXCEPT !.omitsUnset = {"clientIdentifierPrependZero"}]

IPv6(fields) == (fields \ {"ipv4addr"}) \cup {"ipv6addr"}
FixedIPv6Address ==
    [Kind([FixedAddressParameters EXCEPT !.required = {"mac"}, !.optional = IPv6(@ \ {"mac"})],
          OptionsGate, IPv6(FixedAddressCompared), IPv6(FixedAddressLateInitialized) \ {"mac"},
          IPv6(FixedAddressCreated), IPv6(FixedAddressUpdated))
       EXCEPT !.omitsUnset = {"clientIdentifierPrependZero"}]

-----------------------------------------------------------------------------
(***************************************************************************)
(* descendantsAction is part of a request, not of the definition.          *)
(***************************************************************************)
AttributeParameters ==
    [required  |-> {"name", "type"},
     optional  |-> {"comment", "defaultValue", "flags", "min", "max", "listValues",
                    "allowedObjectTypes"},
     immutable |-> {"type", "min", "max"}]
AttributeCompared ==
    {"name", "comment", "defaultValue", "flags", "listValues", "allowedObjectTypes"}
AttributeLateInitialized ==
    {"comment", "defaultValue", "flags", "listValues", "allowedObjectTypes"}
AttributeCreated ==
    {"name", "type", "comment", "defaultValue", "flags", "min", "max", "listValues",
     "allowedObjectTypes"}
AttributeUpdated ==
    {"name", "comment", "defaultValue", "flags", "listValues", "allowedObjectTypes"}
Attribute ==
    [Kind(AttributeParameters, NoFields, AttributeCompared, AttributeLateInitialized,
          AttributeCreated, AttributeUpdated)
       EXCEPT !.omitsUnset = AttributeParameters.optional]

AddressKinds ==
    [NetworkView |-> NetworkView, Network |-> Network, NetworkContainer |-> NetworkContainer,
     Range |-> DHCPRange, RangeTemplate |-> RangeTemplate, SharedNetwork |-> SharedNetwork,
     FixedAddress |-> FixedAddress, FixedIPv6Address |-> FixedIPv6Address,
     Attribute |-> Attribute]
=============================================================================
