--------------------------- MODULE ZoneControllers --------------------------
(***************************************************************************)
(* The controllers of zones and views.                                     *)
(***************************************************************************)
EXTENDS Controllers

-----------------------------------------------------------------------------
DelegatedNotFound == {"typed", "status"}
DelegatedPrerequisite == <<"probe">>
DelegatedResolve == <<"ref", "uid">>
DelegatedRelease == DelegatedResolve \o <<"delete">>
DelegatedClusterConnect == <<"track", "config">>
DelegatedClusterClient ==
    Client(DelegatedResolve,
           DelegatedPrerequisite \o <<"post", "name">>,
           DelegatedPrerequisite \o <<"put", "refresh">>,
           DelegatedRelease)
DelegatedClusterSetup == <<"resilientRecorder", "controller">>
DelegatedNamespacedConnect == <<"track", "byKind">>
DelegatedNamespacedClient ==
    Client(DelegatedResolve,
           DelegatedPrerequisite \o <<"post", "name">>,
           DelegatedPrerequisite \o <<"put", "refresh">>,
           DelegatedRelease)
DelegatedNamespacedSetup == <<"resilientRecorder", "controller">>
DelegatedGates == {"cluster", "namespaced"}
DelegatedController ==
    Controller(DelegatedNotFound, DelegatedGates,
               Scoped(DelegatedClusterConnect, DelegatedClusterClient, DelegatedClusterSetup),
               Scoped(DelegatedNamespacedConnect, DelegatedNamespacedClient, DelegatedNamespacedSetup))

-----------------------------------------------------------------------------
ForwardNotFound == {"typed", "status"}
ForwardPrerequisite == <<"probe">>
ForwardResolve == <<"ref", "uid">>
ForwardRelease == ForwardResolve \o <<"delete">>
ForwardClusterConnect == <<"track", "config">>
ForwardClusterClient ==
    Client(ForwardResolve,
           ForwardPrerequisite \o <<"post", "name">>,
           ForwardPrerequisite \o <<"put", "refresh">>,
           ForwardRelease)
ForwardClusterSetup == <<"resilientRecorder", "controller">>
ForwardNamespacedConnect == <<"track", "byKind">>
ForwardNamespacedClient ==
    Client(ForwardResolve,
           ForwardPrerequisite \o <<"post", "name">>,
           ForwardPrerequisite \o <<"put", "refresh">>,
           ForwardRelease)
ForwardNamespacedSetup == <<"resilientRecorder", "controller">>
ForwardGates == {"cluster", "namespaced"}
ForwardController ==
    Controller(ForwardNotFound, ForwardGates,
               Scoped(ForwardClusterConnect, ForwardClusterClient, ForwardClusterSetup),
               Scoped(ForwardNamespacedConnect, ForwardNamespacedClient, ForwardNamespacedSetup))

-----------------------------------------------------------------------------
AuthNotFound == {"typed", "status"}
AuthPrerequisite == <<"probe">>
AuthResolve == <<"ref", "uid">>
AuthRelease == AuthResolve \o <<"delete">>
AuthClusterConnect == <<"track", "config">>
AuthClusterClient ==
    Client(AuthResolve,
           AuthPrerequisite \o <<"post", "name">>,
           AuthPrerequisite \o <<"put">>,
           AuthRelease)
AuthClusterSetup == <<"resilientRecorder", "controller">>
AuthNamespacedConnect == <<"track", "byKind">>
AuthNamespacedClient ==
    Client(AuthResolve,
           AuthPrerequisite \o <<"post", "name">>,
           AuthPrerequisite \o <<"put">>,
           AuthRelease)
AuthNamespacedSetup == <<"resilientRecorder", "controller">>
AuthGates == {"cluster", "namespaced"}
AuthController ==
    Controller(AuthNotFound, AuthGates,
               Scoped(AuthClusterConnect, AuthClusterClient, AuthClusterSetup),
               Scoped(AuthNamespacedConnect, AuthNamespacedClient, AuthNamespacedSetup))

-----------------------------------------------------------------------------
\* The views that the Grid comes with are not deleted.
ViewNotFound == {"typed", "status"}
ViewPrerequisite == <<"probe">>
ViewResolve == <<"ref", "uid">>
ViewRelease == ViewResolve \o <<"delete">>
ViewClusterConnect == <<"track", "config">>
ViewClusterClient ==
    Client(ViewResolve,
           ViewPrerequisite \o <<"post", "name">>,
           ViewPrerequisite \o <<"put", "refresh">>,
           <<"wellKnown">> \o ViewRelease)
ViewClusterSetup == <<"resilientRecorder", "controller">>
ViewNamespacedConnect == <<"track", "byKind">>
ViewNamespacedClient ==
    Client(ViewResolve,
           ViewPrerequisite \o <<"post", "name">>,
           ViewPrerequisite \o <<"put", "refresh">>,
           <<"wellKnown">> \o ViewRelease)
ViewNamespacedSetup == <<"resilientRecorder", "controller">>
ViewGates == {"cluster", "namespaced"}
ViewController ==
    Controller(ViewNotFound, ViewGates,
               Scoped(ViewClusterConnect, ViewClusterClient, ViewClusterSetup),
               Scoped(ViewNamespacedConnect, ViewNamespacedClient, ViewNamespacedSetup))

-----------------------------------------------------------------------------
ZoneKinds ==
    [Delegated |-> DelegatedController,
     Forward |-> ForwardController,
     Auth |-> AuthController,
     View |-> ViewController]
=============================================================================
