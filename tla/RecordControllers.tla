-------------------------- MODULE RecordControllers -------------------------
(***************************************************************************)
(* The controllers of the record kinds.                                    *)
(***************************************************************************)
EXTENDS Controllers

-----------------------------------------------------------------------------
ANotFound == {"typed", "status"}
APrerequisite == <<"probe">>
AResolve == <<"ref", "uid">>
ARelease == AResolve \o <<"delete">>
AClusterConnect == <<"track", "config">>
AClusterClient ==
    Client(AResolve,
           <<"valid">> \o APrerequisite \o <<"post", "name">>,
           APrerequisite \o <<"put", "refresh">>,
           ARelease)
AClusterSetup == <<"resilientRecorder", "controller">>
ANamespacedConnect == <<"track", "byKind">>
ANamespacedClient ==
    Client(AResolve,
           <<"valid">> \o APrerequisite \o <<"post", "name">>,
           APrerequisite \o <<"put", "refresh">>,
           ARelease)
ANamespacedSetup == <<"resilientRecorder", "controller">>
AGates == {"cluster", "namespaced"}
AController ==
    Controller(ANotFound, AGates,
               Scoped(AClusterConnect, AClusterClient, AClusterSetup),
               Scoped(ANamespacedConnect, ANamespacedClient, ANamespacedSetup))

-----------------------------------------------------------------------------
AAAANotFound == {"typed", "status"}
AAAAPrerequisite == <<"probe">>
AAAAResolve == <<"ref", "uid">>
AAAARelease == AAAAResolve \o <<"delete">>
AAAAClusterConnect == <<"track", "config">>
AAAAClusterClient ==
    Client(AAAAResolve,
           <<"valid">> \o AAAAPrerequisite \o <<"post", "name">>,
           AAAAPrerequisite \o <<"put", "refresh">>,
           AAAARelease)
AAAAClusterSetup == <<"resilientRecorder", "controller">>
AAAANamespacedConnect == <<"track", "byKind">>
AAAANamespacedClient ==
    Client(AAAAResolve,
           <<"valid">> \o AAAAPrerequisite \o <<"post", "name">>,
           AAAAPrerequisite \o <<"put", "refresh">>,
           AAAARelease)
AAAANamespacedSetup == <<"resilientRecorder", "controller">>
AAAAGates == {"cluster", "namespaced"}
AAAAController ==
    Controller(AAAANotFound, AAAAGates,
               Scoped(AAAAClusterConnect, AAAAClusterClient, AAAAClusterSetup),
               Scoped(AAAANamespacedConnect, AAAANamespacedClient, AAAANamespacedSetup))

-----------------------------------------------------------------------------
CNAMENotFound == {"typed", "status"}
CNAMEPrerequisite == <<"probe">>
CNAMEResolve == <<"ref", "uid">>
CNAMERelease == CNAMEResolve \o <<"delete">>
CNAMEClusterConnect == <<"track", "config">>
CNAMEClusterClient ==
    Client(CNAMEResolve,
           CNAMEPrerequisite \o <<"post", "name">>,
           CNAMEPrerequisite \o <<"put", "refresh">>,
           CNAMERelease)
CNAMEClusterSetup == <<"resilientRecorder", "controller">>
CNAMENamespacedConnect == <<"track", "byKind">>
CNAMENamespacedClient ==
    Client(CNAMEResolve,
           CNAMEPrerequisite \o <<"post", "name">>,
           CNAMEPrerequisite \o <<"put", "refresh">>,
           CNAMERelease)
CNAMENamespacedSetup == <<"resilientRecorder", "controller">>
CNAMEGates == {"cluster", "namespaced"}
CNAMEController ==
    Controller(CNAMENotFound, CNAMEGates,
               Scoped(CNAMEClusterConnect, CNAMEClusterClient, CNAMEClusterSetup),
               Scoped(CNAMENamespacedConnect, CNAMENamespacedClient, CNAMENamespacedSetup))

-----------------------------------------------------------------------------
MXNotFound == {"typed", "status"}
MXPrerequisite == <<"probe">>
MXResolve == <<"ref", "uid">>
MXRelease == MXResolve \o <<"delete">>
MXClusterConnect == <<"track", "config">>
MXClusterClient ==
    Client(MXResolve,
           MXPrerequisite \o <<"post", "name">>,
           MXPrerequisite \o <<"put", "refresh">>,
           MXRelease)
MXClusterSetup == <<"resilientRecorder", "controller">>
MXNamespacedConnect == <<"track", "byKind">>
MXNamespacedClient ==
    Client(MXResolve,
           MXPrerequisite \o <<"post", "name">>,
           MXPrerequisite \o <<"put", "refresh">>,
           MXRelease)
MXNamespacedSetup == <<"resilientRecorder", "controller">>
MXGates == {"cluster", "namespaced"}
MXController ==
    Controller(MXNotFound, MXGates,
               Scoped(MXClusterConnect, MXClusterClient, MXClusterSetup),
               Scoped(MXNamespacedConnect, MXNamespacedClient, MXNamespacedSetup))

-----------------------------------------------------------------------------
SRVNotFound == {"typed", "status"}
SRVPrerequisite == <<"probe">>
SRVResolve == <<"ref", "uid">>
SRVRelease == SRVResolve \o <<"delete">>
SRVClusterConnect == <<"track", "config">>
SRVClusterClient ==
    Client(SRVResolve,
           SRVPrerequisite \o <<"post", "name">>,
           SRVPrerequisite \o <<"put", "refresh">>,
           SRVRelease)
SRVClusterSetup == <<"resilientRecorder", "controller">>
SRVNamespacedConnect == <<"track", "byKind">>
SRVNamespacedClient ==
    Client(SRVResolve,
           SRVPrerequisite \o <<"post", "name">>,
           SRVPrerequisite \o <<"put", "refresh">>,
           SRVRelease)
SRVNamespacedSetup == <<"resilientRecorder", "controller">>
SRVGates == {"cluster", "namespaced"}
SRVController ==
    Controller(SRVNotFound, SRVGates,
               Scoped(SRVClusterConnect, SRVClusterClient, SRVClusterSetup),
               Scoped(SRVNamespacedConnect, SRVNamespacedClient, SRVNamespacedSetup))

-----------------------------------------------------------------------------
TXTNotFound == {"typed", "status"}
TXTPrerequisite == <<"probe">>
TXTResolve == <<"ref", "uid">>
TXTRelease == TXTResolve \o <<"delete">>
\* Mutant: the ProviderConfig is read before its use is on record.
TXTClusterConnect_late == <<"config", "track">>

TXTClusterConnect == <<"track", "config">>
TXTClusterClient ==
    Client(TXTResolve,
           TXTPrerequisite \o <<"post", "name">>,
           TXTPrerequisite \o <<"put", "refresh">>,
           TXTRelease)
\* Mutant: the runtime's own recorder.
TXTClusterSetup_plain == <<"recorder", "controller">>

TXTClusterSetup == <<"resilientRecorder", "controller">>
TXTNamespacedConnect == <<"track", "byKind">>
TXTNamespacedClient ==
    Client(TXTResolve,
           TXTPrerequisite \o <<"post", "name">>,
           TXTPrerequisite \o <<"put", "refresh">>,
           TXTRelease)
TXTNamespacedSetup == <<"resilientRecorder", "controller">>
\* Mutant: one of the two scopes is not registered.
TXTGates_half == {"namespaced"}

TXTGates == {"cluster", "namespaced"}
TXTController ==
    Controller(TXTNotFound, TXTGates,
               Scoped(TXTClusterConnect, TXTClusterClient, TXTClusterSetup),
               Scoped(TXTNamespacedConnect, TXTNamespacedClient, TXTNamespacedSetup))

-----------------------------------------------------------------------------
AliasNotFound == {"typed", "status"}
AliasPrerequisite == <<"probe">>
AliasResolve == <<"ref", "uid">>
AliasRelease == AliasResolve \o <<"delete">>
AliasClusterConnect == <<"track", "config">>
AliasClusterClient ==
    Client(AliasResolve,
           AliasPrerequisite \o <<"post", "name">>,
           AliasPrerequisite \o <<"put", "refresh">>,
           AliasRelease)
AliasClusterSetup == <<"resilientRecorder", "controller">>
AliasNamespacedConnect == <<"track", "byKind">>
AliasNamespacedClient ==
    Client(AliasResolve,
           AliasPrerequisite \o <<"post", "name">>,
           AliasPrerequisite \o <<"put", "refresh">>,
           AliasRelease)
AliasNamespacedSetup == <<"resilientRecorder", "controller">>
AliasGates == {"cluster", "namespaced"}
AliasController ==
    Controller(AliasNotFound, AliasGates,
               Scoped(AliasClusterConnect, AliasClusterClient, AliasClusterSetup),
               Scoped(AliasNamespacedConnect, AliasNamespacedClient, AliasNamespacedSetup))

-----------------------------------------------------------------------------
PTRNotFound == {"typed", "status"}
PTRPrerequisite == <<"probe">>
PTRResolve == <<"ref", "uid">>
PTRRelease == PTRResolve \o <<"delete">>
PTRClusterConnect == <<"track", "config">>
PTRClusterClient ==
    Client(PTRResolve,
           <<"valid">> \o PTRPrerequisite \o <<"post", "name">>,
           PTRPrerequisite \o <<"put", "refresh">>,
           PTRRelease)
PTRClusterSetup == <<"resilientRecorder", "controller">>
PTRNamespacedConnect == <<"track", "byKind">>
PTRNamespacedClient ==
    Client(PTRResolve,
           <<"valid">> \o PTRPrerequisite \o <<"post", "name">>,
           PTRPrerequisite \o <<"put", "refresh">>,
           PTRRelease)
PTRNamespacedSetup == <<"resilientRecorder", "controller">>
PTRGates == {"cluster", "namespaced"}
PTRController ==
    Controller(PTRNotFound, PTRGates,
               Scoped(PTRClusterConnect, PTRClusterClient, PTRClusterSetup),
               Scoped(PTRNamespacedConnect, PTRNamespacedClient, PTRNamespacedSetup))

-----------------------------------------------------------------------------
\* Without a stamp: the natural key is all there is to search by.
\* Mutant: an error that has lost its type is taken for another one.
NSNotFound_untyped == {"status"}

NSNotFound == {"typed", "status"}
\* Mutant: a 404 on the reference is taken for the end of the object.
NSResolve_bare404 == <<"ref">>

NSResolve == <<"ref", "key">>
NSRelease == <<"delete", "key", "delete">>
NSClusterConnect == <<"track", "config">>
NSClusterClient ==
    Client(NSResolve,
           <<"post", "name">>,
           <<"put", "refresh">>,
           NSRelease)
NSClusterSetup == <<"resilientRecorder", "controller">>
NSNamespacedConnect == <<"track", "byKind">>
NSNamespacedClient ==
    Client(NSResolve,
           <<"post", "name">>,
           <<"put", "refresh">>,
           NSRelease)
NSNamespacedSetup == <<"resilientRecorder", "controller">>
NSGates == {"cluster", "namespaced"}
NSController ==
    Controller(NSNotFound, NSGates,
               Scoped(NSClusterConnect, NSClusterClient, NSClusterSetup),
               Scoped(NSNamespacedConnect, NSNamespacedClient, NSNamespacedSetup))

-----------------------------------------------------------------------------
HostNotFound == {"typed", "status"}
HostPrerequisite == <<"probe">>
HostResolve == <<"ref", "uid">>
HostRelease == HostResolve \o <<"delete">>
HostClusterConnect == <<"track", "config">>
HostClusterClient ==
    Client(HostResolve,
           <<"valid">> \o HostPrerequisite \o <<"post", "name">>,
           HostPrerequisite \o <<"put", "refresh">>,
           HostRelease)
HostClusterSetup == <<"resilientRecorder", "controller">>
HostNamespacedConnect == <<"track", "byKind">>
HostNamespacedClient ==
    Client(HostResolve,
           <<"valid">> \o HostPrerequisite \o <<"post", "name">>,
           HostPrerequisite \o <<"put", "refresh">>,
           HostRelease)
HostNamespacedSetup == <<"resilientRecorder", "controller">>
HostGates == {"cluster", "namespaced"}
HostController ==
    Controller(HostNotFound, HostGates,
               Scoped(HostClusterConnect, HostClusterClient, HostClusterSetup),
               Scoped(HostNamespacedConnect, HostNamespacedClient, HostNamespacedSetup))

-----------------------------------------------------------------------------
RecordKinds ==
    [A |-> AController,
     AAAA |-> AAAAController,
     CNAME |-> CNAMEController,
     MX |-> MXController,
     SRV |-> SRVController,
     TXT |-> TXTController,
     Alias |-> AliasController,
     PTR |-> PTRController,
     NS |-> NSController,
     Host |-> HostController]
=============================================================================
