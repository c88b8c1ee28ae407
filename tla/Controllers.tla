---------------------------- MODULE Controllers -----------------------------
(***************************************************************************)
(* What a kind's controller does, as programs: the calls that Connect,     *)
(* Observe, Create, Update and Delete make, in their order.  Lifecycle     *)
(* runs the programs; the modules that extend this one have one table per  *)
(* kind and scope, read off its functions.                                 *)
(*                                                                         *)
(*   track     record that the ProviderConfig is used                      *)
(*   config    read it; byKind: the namespaced or the cluster-wide one     *)
(*   guard     take an object that was never named for absent              *)
(*   ref       GET the stored reference                                    *)
(*   uid       search by the identity attribute                            *)
(*   key       search by the natural key                                   *)
(*   refuse    search by the natural key, and fail if it finds something   *)
(*   probe     make sure that the identity attribute is defined            *)
(*   valid     refuse a spec that contradicts itself                       *)
(*   reserved  refuse the name of the identity attribute                   *)
(*   resolved  refuse a reference that is to the identity attribute        *)
(*   wellKnown leave a view that the Grid comes with alone                 *)
(*   post, put, delete   the requests                                      *)
(*   name      record the reference of what was created                    *)
(*   refresh   record the reference that the PUT has changed               *)
(***************************************************************************)
EXTENDS Integers, Sequences, TLC

Scopes == {"cluster", "namespaced"}

\* What looks for the object.
Lookups == {"ref", "uid", "key", "refuse"}

Client(observe, create, update, delete) ==
    [observe |-> observe, create |-> create, update |-> update, delete |-> delete]

\* notFound: how a 404 is told from other errors; gates: the scopes that SafeStart knows.
Controller(notFound, gates, cluster, namespaced) ==
    [notFound   |-> notFound,
     gates      |-> gates,
     cluster    |-> cluster,
     namespaced |-> namespaced]

Scoped(connect, client, setup) == [connect |-> connect, client |-> client, setup |-> setup]

-----------------------------------------------------------------------------
(***************************************************************************)
(* Which steps each function is made of.                                   *)
(***************************************************************************)
ConnectSteps == {"track", "config", "byKind"}
ObserveSteps == Lookups \cup {"guard"}
CreateSteps  == {"valid", "probe", "reserved", "resolved", "post", "name"}
UpdateSteps  == {"probe", "reserved", "resolved", "put", "refresh"}
DeleteSteps  == Lookups \cup {"reserved", "resolved", "wellKnown", "delete"}
SetupSteps   == {"recorder", "resilientRecorder", "controller"}

Clients  == [observe : Seq(ObserveSteps), create : Seq(CreateSteps),
             update : Seq(UpdateSteps), delete : Seq(DeleteSteps)]
Programs == [connect : Seq(ConnectSteps), client : Clients, setup : Seq(SetupSteps)]

ControllerTables ==
    [notFound : SUBSET {"typed", "status"}, gates : SUBSET Scopes,
     cluster : Programs, namespaced : Programs]

-----------------------------------------------------------------------------
(***************************************************************************)
(* The order of calls that the correctness of a controller rests on.       *)
(***************************************************************************)
Among(step, steps) == \E i \in DOMAIN steps : steps[i] = step

NoneAfter(first, then, steps) ==
    \A i, j \in DOMAIN steps : i < j /\ steps[i] \in first => steps[j] \notin then

\* The use of the ProviderConfig is recorded, and the ProviderConfig read after that.
Followed(steps) ==
    \A i \in DOMAIN steps : steps[i] = "track" =>
        \E j \in DOMAIN steps : i < j /\ steps[j] \in {"config", "byKind"}

TracksFirst(c) == Among("track", c.connect) /\ Followed(c.connect)

\* An object is taken for absent when a search that cannot miss it has missed it, and
\* whoever stamps searches by nothing else.  One request makes or changes an object.
SearchesFirst(c, fixed) ==
    /\ \/ Among("guard", c.client.observe)
       \/ Among("uid", c.client.observe) /\ Among("ref", c.client.observe)
       \/ Among("key", c.client.observe) /\ fixed
    /\ Among("uid", c.client.observe) => ~Among("key", c.client.observe \o c.client.delete)
    /\ NoneAfter({"post"}, {"post"}, c.client.create)
    /\ NoneAfter({"put"}, {"put"}, c.client.update)

\* What is not to be touched is recognised before the request, and nothing is looked for
\* that was not recognised.
ChecksFirst(c) ==
    /\ Among("reserved", c.client.update) =>
         /\ Among("resolved", c.client.update) /\ NoneAfter({"put"}, {"resolved"}, c.client.update)
         /\ Among("resolved", c.client.delete) /\ NoneAfter({"delete"}, {"resolved"}, c.client.delete)
         /\ \A step \in {"uid", "key"} : ~Among(step, c.client.observe \o c.client.delete)
    /\ Among("wellKnown", c.client.delete) =>
         /\ Among("uid", c.client.observe) /\ ~Among("guard", c.client.observe)
         /\ NoneAfter(Lookups \cup {"delete"}, {"wellKnown"}, c.client.delete)

\* The recorder survives a list that fails.
RecordsSafely(c) == Among("resilientRecorder", c.setup)
=============================================================================
