------------------------- MODULE TrafficControllers -------------------------
(***************************************************************************)
(* The controllers of DNS traffic control.                                 *)
(***************************************************************************)
EXTENDS Controllers

-----------------------------------------------------------------------------
ServerNotFound == {"typed", "status"}
ServerPrerequisite == <<"probe">>
ServerResolve == <<"ref", "uid">>
ServerRelease == ServerResolve \o <<"delete">>
ServerClusterConnect == <<"track", "config">>
ServerClusterClient ==
    Client(ServerResolve,
           ServerPrerequisite \o <<"post", "name">>,
           ServerPrerequisite \o <<"put", "refresh">>,
           ServerRelease)
ServerClusterSetup == <<"resilientRecorder", "controller">>
ServerNamespacedConnect == <<"track", "byKind">>
ServerNamespacedClient ==
    Client(ServerResolve,
           ServerPrerequisite \o <<"post", "name">>,
           ServerPrerequisite \o <<"put", "refresh">>,
           ServerRelease)
ServerNamespacedSetup == <<"resilientRecorder", "controller">>
ServerGates == {"cluster", "namespaced"}
ServerController ==
    Controller(ServerNotFound, ServerGates,
               Scoped(ServerClusterConnect, ServerClusterClient, ServerClusterSetup),
               Scoped(ServerNamespacedConnect, ServerNamespacedClient, ServerNamespacedSetup))

-----------------------------------------------------------------------------
PoolNotFound == {"typed", "status"}
PoolPrerequisite == <<"probe">>
PoolResolve == <<"ref", "uid">>
PoolRelease == PoolResolve \o <<"delete">>
PoolClusterConnect == <<"track", "config">>
PoolClusterClient ==
    Client(PoolResolve,
           PoolPrerequisite \o <<"post", "name">>,
           PoolPrerequisite \o <<"put", "refresh">>,
           PoolRelease)
PoolClusterSetup == <<"resilientRecorder", "controller">>
PoolNamespacedConnect == <<"track", "byKind">>
PoolNamespacedClient ==
    Client(PoolResolve,
           PoolPrerequisite \o <<"post", "name">>,
           PoolPrerequisite \o <<"put", "refresh">>,
           PoolRelease)
PoolNamespacedSetup == <<"resilientRecorder", "controller">>
PoolGates == {"cluster", "namespaced"}
PoolController ==
    Controller(PoolNotFound, PoolGates,
               Scoped(PoolClusterConnect, PoolClusterClient, PoolClusterSetup),
               Scoped(PoolNamespacedConnect, PoolNamespacedClient, PoolNamespacedSetup))

-----------------------------------------------------------------------------
LBDNNotFound == {"typed", "status"}
LBDNPrerequisite == <<"probe">>
LBDNResolve == <<"ref", "uid">>
LBDNRelease == LBDNResolve \o <<"delete">>
LBDNClusterConnect == <<"track", "config">>
LBDNClusterClient ==
    Client(LBDNResolve,
           LBDNPrerequisite \o <<"post", "name">>,
           LBDNPrerequisite \o <<"put", "refresh">>,
           LBDNRelease)
LBDNClusterSetup == <<"resilientRecorder", "controller">>
LBDNNamespacedConnect == <<"track", "byKind">>
LBDNNamespacedClient ==
    Client(LBDNResolve,
           LBDNPrerequisite \o <<"post", "name">>,
           LBDNPrerequisite \o <<"put", "refresh">>,
           LBDNRelease)
LBDNNamespacedSetup == <<"resilientRecorder", "controller">>
LBDNGates == {"cluster", "namespaced"}
LBDNController ==
    Controller(LBDNNotFound, LBDNGates,
               Scoped(LBDNClusterConnect, LBDNClusterClient, LBDNClusterSetup),
               Scoped(LBDNNamespacedConnect, LBDNNamespacedClient, LBDNNamespacedSetup))

-----------------------------------------------------------------------------
TrafficKinds ==
    [Server |-> ServerController,
     Pool |-> PoolController,
     LBDN |-> LBDNController]
=============================================================================
