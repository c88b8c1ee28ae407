----------------------------- MODULE References -----------------------------
(***************************************************************************)
(* A field whose value comes from another managed resource, its target:    *)
(* the networkView of a network, the servers of a pool.  Before it looks   *)
(* at the Grid, a reconcile has ResolveReferences extract the value, and   *)
(* saves it in spec.forProvider, where it stays unless the reference is to *)
(* be resolved always.  Meanwhile the target's own controller names,       *)
(* creates, fills in and renames the target; how it does so is the subject *)
(* of ARecord and Lifecycle.                                               *)
(***************************************************************************)
EXTENDS Kinds, Naturals

CONSTANTS
    Subjects,  \* [kind, field]: what is looked at
    Policies,  \* when users have references resolved
    Name,      \* what targets are called
    None,      \* no value, no name, no object
    MaxEdits,  \* bound on edits of the target and of the field
    MaxFaults  \* bound on reconciles of the referrer that are cut short

(***************************************************************************)
(* What another object is designated by.  A WAPI reference encodes the     *)
(* object's name.  The external-name annotation is the resource's own      *)
(* Kubernetes name until there is a WAPI reference to put there.           *)
(***************************************************************************)
ByName(n) == [by |-> "name", of |-> n]
ByRef(n)  == [by |-> "ref", of |-> n]
Kube      == [by |-> "kube"]
Designations == {ByName(n) : n \in Name} \cup {ByRef(n) : n \in Name} \cup {Kube}

\* What the Grid may have instead: a link to an object, or a place of its choice.
Link    == [by |-> "link"]
Default == [by |-> "default"]

ASSUME ReferencesConstants ==
    /\ Policies \subseteq {"IfNotPresent", "Always"}
    /\ None \notin Name /\ None \notin Designations \cup {Link, Default}
    /\ {MaxEdits, MaxFaults} \subseteq Nat

-----------------------------------------------------------------------------
(***************************************************************************)
(* ResolveReferences of each kind and scope: the kind of the target, and   *)
(* what is taken from it.                                                  *)
(***************************************************************************)
ExternalName(to)        == [to |-> to, extract |-> "external-name"]
ExtractField(path, to)  == [to |-> to, extract |-> path]

Cluster(kind)    == <<kind, "cluster">>
Namespaced(kind) == <<kind, "namespaced">>

LBDNCluster    == [pools     |-> ExternalName(Cluster("Pool")),
                   authZones |-> ExternalName(Cluster("Auth"))]
LBDNNamespaced == [pools     |-> ExternalName(Cluster("Pool")),
                   authZones |-> ExternalName(Cluster("Auth"))]

PoolCluster    == [servers |-> ExternalName(Cluster("Server"))]
PoolNamespaced == [servers |-> ExternalName(Cluster("Server"))]

FixedAddressCluster    == [networkView |-> ExtractField("name", Cluster("NetworkView"))]
FixedAddressNamespaced == [networkView |-> ExtractField("name", Cluster("NetworkView"))]

HostCluster    == [networkView |-> ExtractField("name", Cluster("NetworkView"))]
HostNamespaced == [networkView |-> ExtractField("name", Cluster("NetworkView"))]

SharedNetworkCluster    == [networks |-> ExtractField("network", Cluster("Network"))]
SharedNetworkNamespaced == [networks |-> ExtractField("network", Cluster("Network"))]

\* Mutant: the default extractor.
NetworkCluster_byRef == [networkView |-> ExternalName(Cluster("NetworkView"))]

NetworkCluster    == [networkView |-> ExtractField("name", Cluster("NetworkView"))]
NetworkNamespaced == [networkView |-> ExtractField("name", Cluster("NetworkView"))]

NetworkContainerCluster    == [networkView |-> ExtractField("name", Cluster("NetworkView"))]
NetworkContainerNamespaced == [networkView |-> ExtractField("name", Cluster("NetworkView"))]

RangeCluster    == [networkView |-> ExtractField("name", Cluster("NetworkView"))]
RangeNamespaced == [networkView |-> ExtractField("name", Namespaced("NetworkView"))]

CNAMECluster    == [canonical |-> ExtractField("name", Cluster("A"))]
CNAMENamespaced == [canonical |-> ExtractField("name", Namespaced("A"))]

PTRCluster    == [ptrdname |-> ExtractField("name", Cluster("A"))]
PTRNamespaced == [ptrdname |-> ExtractField("name", Namespaced("A"))]

References ==
    Cluster("LBDN") :> LBDNCluster @@ Namespaced("LBDN") :> LBDNNamespaced
      @@ Cluster("Pool") :> PoolCluster @@ Namespaced("Pool") :> PoolNamespaced
      @@ Cluster("FixedAddress") :> FixedAddressCluster
      @@ Namespaced("FixedAddress") :> FixedAddressNamespaced
      @@ Cluster("Host") :> HostCluster @@ Namespaced("Host") :> HostNamespaced
      @@ Cluster("SharedNetwork") :> SharedNetworkCluster
      @@ Namespaced("SharedNetwork") :> SharedNetworkNamespaced
      @@ Cluster("Network") :> NetworkCluster @@ Namespaced("Network") :> NetworkNamespaced
      @@ Cluster("NetworkContainer") :> NetworkContainerCluster
      @@ Namespaced("NetworkContainer") :> NetworkContainerNamespaced
      @@ Cluster("Range") :> RangeCluster @@ Namespaced("Range") :> RangeNamespaced
      @@ Cluster("CNAME") :> CNAMECluster @@ Namespaced("CNAME") :> CNAMENamespaced
      @@ Cluster("PTR") :> PTRCluster @@ Namespaced("PTR") :> PTRNamespaced

-----------------------------------------------------------------------------
VARIABLES
    subject,  \* the field looked at
    target,   \* the target in the API server: its name and its external name
    grid,     \* what its object in the Grid is called
    mr,       \* the resource with the reference: when to resolve it, and the field
    obj,      \* what its own object has there
    wk,       \* its reconcile under way
    edits,    \* edits left
    faults    \* failures left

vars == <<subject, target, grid, mr, obj, wk, edits, faults>>

R == References[subject.kind][subject.field]
K == Kinds[subject.kind]

\* The field of the target that its object is called after.
Naming == [Server |-> "name", Pool |-> "name", Auth |-> "fqdn", NetworkView |-> "name",
           Network |-> "network", A |-> "name"]
Renamable == Naming[R.to[1]] \notin Kinds[R.to].immutable
Nameless  == Naming[R.to[1]] \notin Kinds[R.to].required
Fixed     == subject.field \in K.immutable

(***************************************************************************)
(* How the Grid takes the field: as text, or as a link to an object that   *)
(* has to be there; the link survives if that is renamed.  With none, the  *)
(* object is put somewhere by default.                                     *)
(***************************************************************************)
IsText     == subject.field \in {"canonical", "ptrdname"}
Designates == IF subject.field \in {"pools", "servers", "authZones"} THEN ByRef(grid)
                                                                     ELSE ByName(grid)
Means(v)   == grid # None /\ v = Designates

Reported == IF obj = Link THEN Designates ELSE obj

Accepts(v) == v = None \/ IF IsText THEN v.by = "name" ELSE Means(v)
Stored(v)  == IF v = None THEN Default ELSE IF IsText THEN v ELSE Link

Referrers == [policy : Policies, val : Designations \cup {None}]

Idle    == [pc |-> "idle"]
Working == [pc : {"save", "observe", "post", "put"}, val : Designations \cup {None},
            fresh : BOOLEAN]

TypeOK ==
    /\ target \in [name : Name \cup {None}, ext : Designations \cup {None}] \cup {None}
    /\ grid \in Name \cup {None}
    /\ mr \in Referrers \cup {None}
    /\ obj \in Designations \cup {None, Link, Default}
    /\ wk \in Working \cup {Idle}
    /\ edits \in 0..MaxEdits /\ faults \in 0..MaxFaults

Init ==
    /\ subject \in Subjects
    /\ target = None /\ grid = None
    /\ mr = None /\ obj = None /\ wk = Idle
    /\ edits = MaxEdits /\ faults = MaxFaults

-----------------------------------------------------------------------------
(***************************************************************************)
(* Users, in any order.                                                    *)
(***************************************************************************)
Spend == edits > 0 /\ edits' = edits - 1

NewTarget ==
    /\ target = None
    /\ \E n \in Name \cup IF Nameless THEN {None} ELSE {} :
         target' = [name |-> n, ext |-> None]
    /\ UNCHANGED <<subject, grid, mr, obj, wk, edits, faults>>

RenameTarget ==
    /\ target # None /\ Renamable /\ Spend
    /\ \E n \in Name \ {target.name} : target' = [target EXCEPT !.name = n]
    /\ UNCHANGED <<subject, grid, mr, obj, wk, faults>>

\* The Grid keeps what is linked to.
DeleteTarget ==
    /\ target # None /\ obj # Link /\ Spend
    /\ target' = None /\ grid' = None
    /\ UNCHANGED <<subject, mr, obj, wk, faults>>

NewReferrer ==
    /\ mr = None
    /\ \E p \in Policies : mr' = [policy |-> p, val |-> None]
    /\ UNCHANGED <<subject, target, grid, obj, wk, edits, faults>>

\* The field is emptied, so that the reference is resolved once more.
Clear ==
    /\ mr # None /\ ~Fixed /\ mr.val # None /\ Spend
    /\ mr' = [mr EXCEPT !.val = None]
    /\ wk' = IF wk = Idle THEN Idle ELSE [wk EXCEPT !.fresh = FALSE]
    /\ UNCHANGED <<subject, target, grid, obj, faults>>

(***************************************************************************)
(* The target's controller.                                                *)
(***************************************************************************)
Initialize ==
    /\ target # None /\ target.ext = None
    /\ target' = [target EXCEPT !.ext = Kube]
    /\ UNCHANGED <<subject, grid, mr, obj, wk, edits, faults>>

CreateTarget ==
    /\ target # None /\ target.ext = Kube /\ grid = None
    /\ grid' \in IF target.name = None THEN Name ELSE {target.name}
    /\ UNCHANGED <<subject, target, mr, obj, wk, edits, faults>>

UpdateTarget ==
    /\ target # None /\ grid # None /\ target.name \notin {None, grid}
    /\ grid' = target.name
    /\ UNCHANGED <<subject, target, mr, obj, wk, edits, faults>>

FillInName ==
    /\ target # None /\ grid # None /\ target.name = None
    /\ target' = [target EXCEPT !.name = grid]
    /\ UNCHANGED <<subject, grid, mr, obj, wk, edits, faults>>

RecordName ==
    /\ target # None /\ grid # None /\ target.ext # ByRef(grid)
    /\ target' = [target EXCEPT !.ext = ByRef(grid)]
    /\ UNCHANGED <<subject, grid, mr, obj, wk, edits, faults>>

-----------------------------------------------------------------------------
(***************************************************************************)
(* The resource with the reference.                                        *)
(***************************************************************************)
\* Mutant: a field that is not there yet is taken for a value.
Extract_blank == IF R.extract = "external-name" THEN target.ext ELSE ByName(target.name)

Extract ==
    CASE R.extract = "external-name" -> target.ext
      [] R.extract # "external-name" /\ target.name = None -> None
      [] OTHER -> ByName(target.name)

Work(pc, v) == wk' = [pc |-> pc, val |-> v, fresh |-> TRUE]

\* A value that is there is kept, unless the reference is to be resolved always.
IsNoOp == mr.val # None /\ mr.policy # "Always"

\* Mutant: what resolution returned is assigned before its error is looked at.
Resolve_lenient ==
    /\ mr # None /\ wk = Idle
    /\ LET v == IF IsNoOp THEN mr.val ELSE IF target = None THEN None ELSE Extract
       IN  Work(IF v = mr.val THEN "observe" ELSE "save", v)
    /\ UNCHANGED <<subject, target, grid, mr, obj, edits, faults>>

\* A target that is not there, or has no value yet, ends the reconcile with an error.
Resolve ==
    /\ mr # None /\ wk = Idle
    /\ \/ IsNoOp /\ Work("observe", mr.val)
       \/ /\ ~IsNoOp /\ target # None /\ Extract # None
          /\ Work(IF Extract = mr.val THEN "observe" ELSE "save", Extract)
    /\ UNCHANGED <<subject, target, grid, mr, obj, edits, faults>>

\* The CRD's rule for an immutable field.
Admitted(old, new) == Fixed => new = old \/ old = None

SaveResolved ==
    /\ wk.pc = "save"
    /\ IF wk.fresh /\ Admitted(mr.val, wk.val)
       THEN mr' = [mr EXCEPT !.val = wk.val] /\ wk' = [wk EXCEPT !.pc = "observe"]
       ELSE UNCHANGED mr /\ wk' = Idle
    /\ UNCHANGED <<subject, target, grid, obj, edits, faults>>

Observe ==
    /\ wk.pc = "observe"
    /\ wk' = IF obj = None THEN [wk EXCEPT !.pc = "post"]
             ELSE IF subject.field \in K.compared /\ wk.val # Reported
                  THEN [wk EXCEPT !.pc = "put"] ELSE Idle
    /\ UNCHANGED <<subject, target, grid, mr, obj, edits, faults>>

Create ==
    /\ wk.pc = "post"
    /\ obj' = IF Accepts(wk.val) THEN Stored(wk.val) ELSE obj
    /\ wk' = Idle
    /\ UNCHANGED <<subject, target, grid, mr, edits, faults>>

Update ==
    /\ wk.pc = "put"
    /\ obj' = IF subject.field \in K.updated /\ Accepts(wk.val) THEN Stored(wk.val) ELSE obj
    /\ wk' = Idle
    /\ UNCHANGED <<subject, target, grid, mr, edits, faults>>

\* A crash, or a call that failed or was refused for another reason.  A creation cut short
\* here has its failure on record; ARecord and Lifecycle have the one that has not.
Abort ==
    /\ wk # Idle /\ faults > 0
    /\ faults' = faults - 1
    /\ wk' = Idle
    /\ UNCHANGED <<subject, target, grid, mr, obj, edits>>

-----------------------------------------------------------------------------
Users      == NewTarget \/ RenameTarget \/ DeleteTarget \/ NewReferrer \/ Clear
Reconcile  == Resolve \/ SaveResolved \/ Observe \/ Create \/ Update
Maintain   == Initialize \/ CreateTarget \/ UpdateTarget \/ FillInName
\* The external name is recorded in the reconcile that created or renamed the object.
Controller == Maintain \/ RecordName

Next == Users \/ Reconcile \/ Controller \/ Abort

Spec == Init /\ [][Next]_vars

\* Both controllers reconcile again and again; the target's gets to each of its steps.
FairSpec == Spec /\ WF_vars(Reconcile) /\ WF_vars(Maintain) /\ WF_vars(RecordName)

-----------------------------------------------------------------------------
\* An object is never created without its reference, somewhere by default: whatever the
\* order in which users and controllers get to target and referrer, and however often
\* the target comes and goes, an unresolved reference stops the reconcile.
Placed == obj # Default

\* What makes Placed and Kept inductive: a reconcile that got past ResolveReferences is
\* one of a resource, and has a value.
Resolved == wk # Idle => mr \in Referrers /\ wk.val # None

\* A reconcile never takes a resolved value back, even if the target has gone.
Kept ==
    [][mr # None /\ mr.val # None /\ edits' = edits => mr'.val # None]_vars

\* In the end the object is linked to the target, by the value that the spec has.
Linked ==
    /\ mr # None /\ mr.val # None /\ Means(mr.val)
    /\ obj = Stored(mr.val)

\* A value resolved once, or that is not to be changed, is not the target's any more; or
\* it was taken before the target had an external name of its own.
Outdated ==
    /\ mr # None /\ mr.val # None /\ ~Means(mr.val)
    /\ mr.policy = "IfNotPresent" \/ Fixed
    /\ edits < MaxEdits \/ mr.val = Kube

Settles == <>[]Linked \/ []<>(target = None \/ mr = None) \/ []<>Outdated

(***************************************************************************)
(* What the type of the field says.  It does not hold.                     *)
(***************************************************************************)
\* "identified by its Crossplane external-name (the DTCServer's WAPI `_ref`)": what the
\* spec has for a pool's server comes to be a WAPI reference.
Identified ==
    []<>(target = None \/ mr = None) \/ <>[](mr # None /\ mr.val # None /\ mr.val.by = "ref")
=============================================================================
