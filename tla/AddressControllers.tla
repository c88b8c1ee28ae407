------------------------- MODULE AddressControllers -------------------------
(***************************************************************************)
(* The controllers of networks, ranges, fixed addresses and attribute definitions. *)
(***************************************************************************)
EXTENDS Controllers

-----------------------------------------------------------------------------
NetworkViewNotFound == {"typed", "status"}
NetworkViewPrerequisite == <<"probe">>
NetworkViewResolve == <<"ref", "uid">>
NetworkViewRelease == NetworkViewResolve \o <<"delete">>
NetworkViewClusterConnect == <<"track", "config">>
NetworkViewClusterClient ==
    Client(NetworkViewResolve,
           NetworkViewPrerequisite \o <<"post", "name">>,
           NetworkViewPrerequisite \o <<"put", "refresh">>,
           NetworkViewRelease)
NetworkViewClusterSetup == <<"resilientRecorder", "controller">>
NetworkViewNamespacedConnect == <<"track", "byKind">>
NetworkViewNamespacedClient ==
    Client(NetworkViewResolve,
           NetworkViewPrerequisite \o <<"post", "name">>,
           NetworkViewPrerequisite \o <<"put", "refresh">>,
           NetworkViewRelease)
NetworkViewNamespacedSetup == <<"resilientRecorder", "controller">>
NetworkViewGates == {"cluster", "namespaced"}
NetworkViewController ==
    Controller(NetworkViewNotFound, NetworkViewGates,
               Scoped(NetworkViewClusterConnect, NetworkViewClusterClient, NetworkViewClusterSetup),
               Scoped(NetworkViewNamespacedConnect, NetworkViewNamespacedClient, NetworkViewNamespacedSetup))

-----------------------------------------------------------------------------
\* Whether IPv4 or IPv6 is the kind of object that is looked for and does not change.
NetworkNotFound == {"typed", "status"}
NetworkPrerequisite == <<"probe">>
NetworkResolve == <<"ref", "uid">>
NetworkRelease == NetworkResolve \o <<"delete">>
NetworkClusterConnect == <<"track", "config">>
NetworkClusterClient ==
    Client(NetworkResolve,
           NetworkPrerequisite \o <<"valid", "post", "name">>,
           NetworkPrerequisite \o <<"put">>,
           NetworkRelease)
NetworkClusterSetup == <<"resilientRecorder", "controller">>
NetworkNamespacedConnect == <<"track", "byKind">>
NetworkNamespacedClient ==
    Client(NetworkResolve,
           NetworkPrerequisite \o <<"valid", "post", "name">>,
           NetworkPrerequisite \o <<"put">>,
           NetworkRelease)
NetworkNamespacedSetup == <<"resilientRecorder", "controller">>
NetworkGates == {"cluster", "namespaced"}
NetworkController ==
    Controller(NetworkNotFound, NetworkGates,
               Scoped(NetworkClusterConnect, NetworkClusterClient, NetworkClusterSetup),
               Scoped(NetworkNamespacedConnect, NetworkNamespacedClient, NetworkNamespacedSetup))

-----------------------------------------------------------------------------
NetworkContainerNotFound == {"typed", "status"}
NetworkContainerPrerequisite == <<"probe">>
NetworkContainerResolve == <<"ref", "uid">>
NetworkContainerRelease == NetworkContainerResolve \o <<"delete">>
NetworkContainerClusterConnect == <<"track", "config">>
NetworkContainerClusterClient ==
    Client(NetworkContainerResolve,
           NetworkContainerPrerequisite \o <<"valid", "post", "name">>,
           NetworkContainerPrerequisite \o <<"put", "refresh">>,
           NetworkContainerRelease)
NetworkContainerClusterSetup == <<"resilientRecorder", "controller">>
NetworkContainerNamespacedConnect == <<"track", "byKind">>
NetworkContainerNamespacedClient ==
    Client(NetworkContainerResolve,
           NetworkContainerPrerequisite \o <<"valid", "post", "name">>,
           NetworkContainerPrerequisite \o <<"put", "refresh">>,
           NetworkContainerRelease)
NetworkContainerNamespacedSetup == <<"resilientRecorder", "controller">>
NetworkContainerGates == {"cluster", "namespaced"}
NetworkContainerController ==
    Controller(NetworkContainerNotFound, NetworkContainerGates,
               Scoped(NetworkContainerClusterConnect, NetworkContainerClusterClient, NetworkContainerClusterSetup),
               Scoped(NetworkContainerNamespacedConnect, NetworkContainerNamespacedClient, NetworkContainerNamespacedSetup))

-----------------------------------------------------------------------------
RangeNotFound == {"typed", "status"}
RangePrerequisite == <<"probe">>
RangeResolve == <<"ref", "uid">>
RangeRelease == RangeResolve \o <<"delete">>
RangeClusterConnect == <<"track", "config">>
RangeClusterClient ==
    Client(RangeResolve,
           RangePrerequisite \o <<"post", "name">>,
           RangePrerequisite \o <<"put", "refresh">>,
           RangeRelease)
RangeClusterSetup == <<"resilientRecorder", "controller">>
RangeNamespacedConnect == <<"track", "byKind">>
RangeNamespacedClient ==
    Client(RangeResolve,
           RangePrerequisite \o <<"post", "name">>,
           RangePrerequisite \o <<"put", "refresh">>,
           RangeRelease)
RangeNamespacedSetup == <<"resilientRecorder", "controller">>
RangeGates == {"cluster", "namespaced"}
RangeController ==
    Controller(RangeNotFound, RangeGates,
               Scoped(RangeClusterConnect, RangeClusterClient, RangeClusterSetup),
               Scoped(RangeNamespacedConnect, RangeNamespacedClient, RangeNamespacedSetup))

-----------------------------------------------------------------------------
RangeTemplateNotFound == {"typed", "status"}
RangeTemplatePrerequisite == <<"probe">>
RangeTemplateResolve == <<"ref", "uid">>
RangeTemplateRelease == RangeTemplateResolve \o <<"delete">>
RangeTemplateClusterConnect == <<"track", "config">>
RangeTemplateClusterClient ==
    Client(RangeTemplateResolve,
           RangeTemplatePrerequisite \o <<"post", "name">>,
           RangeTemplatePrerequisite \o <<"put", "refresh">>,
           RangeTemplateRelease)
RangeTemplateClusterSetup == <<"resilientRecorder", "controller">>
RangeTemplateNamespacedConnect == <<"track", "byKind">>
RangeTemplateNamespacedClient ==
    Client(RangeTemplateResolve,
           RangeTemplatePrerequisite \o <<"post", "name">>,
           RangeTemplatePrerequisite \o <<"put", "refresh">>,
           RangeTemplateRelease)
RangeTemplateNamespacedSetup == <<"resilientRecorder", "controller">>
RangeTemplateGates == {"cluster", "namespaced"}
RangeTemplateController ==
    Controller(RangeTemplateNotFound, RangeTemplateGates,
               Scoped(RangeTemplateClusterConnect, RangeTemplateClusterClient, RangeTemplateClusterSetup),
               Scoped(RangeTemplateNamespacedConnect, RangeTemplateNamespacedClient, RangeTemplateNamespacedSetup))

-----------------------------------------------------------------------------
SharedNetworkNotFound == {"typed", "status"}
SharedNetworkPrerequisite == <<"probe">>
SharedNetworkResolve == <<"ref", "uid">>
SharedNetworkRelease == SharedNetworkResolve \o <<"delete">>
SharedNetworkClusterConnect == <<"track", "config">>
SharedNetworkClusterClient ==
    Client(SharedNetworkResolve,
           SharedNetworkPrerequisite \o <<"post", "name">>,
           SharedNetworkPrerequisite \o <<"put", "refresh">>,
           SharedNetworkRelease)
SharedNetworkClusterSetup == <<"resilientRecorder", "controller">>
SharedNetworkNamespacedConnect == <<"track", "byKind">>
SharedNetworkNamespacedClient ==
    Client(SharedNetworkResolve,
           SharedNetworkPrerequisite \o <<"post", "name">>,
           SharedNetworkPrerequisite \o <<"put", "refresh">>,
           SharedNetworkRelease)
SharedNetworkNamespacedSetup == <<"resilientRecorder", "controller">>
SharedNetworkGates == {"cluster", "namespaced"}
SharedNetworkController ==
    Controller(SharedNetworkNotFound, SharedNetworkGates,
               Scoped(SharedNetworkClusterConnect, SharedNetworkClusterClient, SharedNetworkClusterSetup),
               Scoped(SharedNetworkNamespacedConnect, SharedNetworkNamespacedClient, SharedNetworkNamespacedSetup))

-----------------------------------------------------------------------------
FixedAddressNotFound == {"typed", "status"}
FixedAddressPrerequisite == <<"probe">>
FixedAddressResolve == <<"ref", "uid">>
FixedAddressRelease == FixedAddressResolve \o <<"delete">>
FixedAddressClusterConnect == <<"track", "config">>
FixedAddressClusterClient ==
    Client(FixedAddressResolve,
           FixedAddressPrerequisite \o <<"post", "name">>,
           FixedAddressPrerequisite \o <<"put", "refresh">>,
           FixedAddressRelease)
FixedAddressClusterSetup == <<"resilientRecorder", "controller">>
FixedAddressNamespacedConnect == <<"track", "byKind">>
FixedAddressNamespacedClient ==
    Client(FixedAddressResolve,
           FixedAddressPrerequisite \o <<"post", "name">>,
           FixedAddressPrerequisite \o <<"put", "refresh">>,
           FixedAddressRelease)
FixedAddressNamespacedSetup == <<"resilientRecorder", "controller">>
FixedAddressGates == {"cluster", "namespaced"}
FixedAddressController ==
    Controller(FixedAddressNotFound, FixedAddressGates,
               Scoped(FixedAddressClusterConnect, FixedAddressClusterClient, FixedAddressClusterSetup),
               Scoped(FixedAddressNamespacedConnect, FixedAddressNamespacedClient, FixedAddressNamespacedSetup))

-----------------------------------------------------------------------------
\* Attribute definitions have no attributes, hence no stamp.  The one that the other kinds
\* are stamped with is never touched.
AttributeNotFound == {"typed", "status"}
\* Mutant: the object behind the reference is not looked at.
AttributeReserved_nameOnly == <<"reserved">>

AttributeReserved == <<"reserved", "resolved">>
AttributeResolve == <<"guard", "ref", "refuse">>
AttributeRelease == <<"delete", "refuse">>
AttributeClusterConnect == <<"track", "config">>
AttributeClusterClient ==
    Client(AttributeResolve,
           AttributeReserved \o <<"post", "name">>,
           AttributeReserved \o <<"put", "refresh">>,
           AttributeReserved \o AttributeRelease)
AttributeClusterSetup == <<"resilientRecorder", "controller">>
AttributeNamespacedConnect == <<"track", "byKind">>
AttributeNamespacedClient ==
    Client(AttributeResolve,
           AttributeReserved \o <<"post", "name">>,
           AttributeReserved \o <<"put", "refresh">>,
           AttributeReserved \o AttributeRelease)
AttributeNamespacedSetup == <<"resilientRecorder", "controller">>
AttributeGates == {"cluster", "namespaced"}
AttributeController ==
    Controller(AttributeNotFound, AttributeGates,
               Scoped(AttributeClusterConnect, AttributeClusterClient, AttributeClusterSetup),
               Scoped(AttributeNamespacedConnect, AttributeNamespacedClient, AttributeNamespacedSetup))

-----------------------------------------------------------------------------
AddressKinds ==
    [NetworkView |-> NetworkViewController,
     Network |-> NetworkController,
     NetworkContainer |-> NetworkContainerController,
     Range |-> RangeController,
     RangeTemplate |-> RangeTemplateController,
     SharedNetwork |-> SharedNetworkController,
     FixedAddress |-> FixedAddressController,
     Attribute |-> AttributeController]
=============================================================================
