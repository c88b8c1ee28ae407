# Formal models of provider-infoblox-nios

TLA+ models, TLC runs and TLAPS proofs of the Crossplane provider for Infoblox
NIOS in `src/`. The provider reconciles 25 kinds of Kubernetes objects (managed
resources, MRs) with objects of an Infoblox Grid over its REST API (WAPI). What
is hard about it is not a single call but what happens between calls: a Grid
object has no idempotency key and its reference changes when it is renamed,
several MRs and people write to one Grid, reads may go to a replica that lags,
and any reconcile can be cut short after any request.

## 1. The system

| component | state it keeps | operations | hard behaviour | what makes it correct |
|---|---|---|---|---|
| identity ladder (`clients/identity/identity.go`, `errors.go`) | none; the stamp (extensible attribute with the MR's uid) is in the Grid | `Resolve`: by stored reference, then by search for the stamp; typed refusals | references that rotate, are reused, or answer with an unstamped object | a verdict never takes somebody else's object for one's own |
| 23 controllers with that identity (`controller/<kind>`), `ARecord` being the model | external-name annotation, finalizer, spec, status in the API server; the object in the Grid | `Observe`, `Create`, `Update`, `Delete`, and the runtime's writes around them; `externalname.Refresh` | stale informer copies, crash or lost reply after each request, a creation whose outcome nobody knows, renames, adoption, other MRs, administrators | at most one object per MR, nothing left behind, nobody else's object touched, convergence, deletion completes |
| field handling of the 25 kinds (`isUpToDate`, `lateInitialize` and the request builders of `controller/<kind>`) | spec, what late initialisation wrote into it, the object's fields | compare, fill in, send, per field | use flags that make the Grid ignore a field or answer another value, unset against zero, addresses the Grid chooses, PUTs that carry every field | what it wrote it is content with, an Update changes nothing the user has not set, the user gets what was asked for, writes end |
| controllers of the 25 kinds in both scopes (`controller/<kind>/{controller,cluster,namespaced}.go`) | the MR in the API server, the object in the Grid, the record that a ProviderConfig is used | `Connect`, `Observe`, `Create`, `Update`, `Delete`, each a sequence of calls that is nearly but not quite the same in all | a call in the wrong order, a 404 mistaken for absence, the provider's own attribute definition, views the Grid comes with | the same promises for every kind, whatever its order of calls |
| natural-key controllers (`recordns`, `extensibleattributedef`, `staleref`) | as above, without a stamp | adopt-one / refuse-many search, stale reference refusal, pre-create guard | two MRs with one natural key, a reference that every PUT may change | no second object, refusal rather than guessing |
| entries of lists (name servers, options, monitors, members, expressions; `dnsview` alone has ten types) | part of the spec and of the object | conversion from and to each scope's type and the SDK's, comparison | nil against false, 0 and "", a use flag inside an entry | an entry that was written compares equal |
| cross-resource references (`zz_generated.resolvers.go`, `referencehelpers`) | `spec.forProvider.<field>` and its `Ref` | `ResolveReferences` before every `Observe` | the target is not there, not created, renamed or gone | no object without its reference; linked in the end |
| prerequisite prober (`clients/identity/probe.go`) | a verdict per host with a TTL, a mutex per host | `Ensure`: cached verdict, else check for the definition and try to create it | concurrent reconciles, definition deleted or created by others, transient errors cached | one probe at a time, bounded staleness, no false refusal, recovery |
| circuit breaker (`clients/dualclient/circuitbreaker.go`) | failure count, open-until time | `RecordFailure`, `RecordSuccess`, `IsOpen` (half-opens) | several callers of a half-open breaker | closes after recovery, one trial |
| dual client (`clients/dualclient`) | two connectors and a breaker | `Reader`, `Writer` | breaker changes between decision and read | writes always go to the primary |
| convergence gate (`clients/convergence`) | a pending-zone-serial annotation on the MR | `RecordWrite`, `Evaluate` | candidate lags or is down, zone moves, annotation damaged, timeout | read-your-writes; nobody is pinned to the primary for ever |
| drift detection (`driftdetection`) | mode and ignored paths in the spec; a snapshot per reconcile | decorator around `Observe` and `Update` | the ignored field's owner writes while a reconcile runs | the owner wins, the provider stops writing |
| provider config (`controller/config`, `dualclient/connect.go`) | credentials, host; its use by MRs | `Connect`, the ProviderConfig's own controller | credentials that share a host; a config deleted while an MR connects | verdicts are not shared across credentials; a config stays while an MR needs it |
| SafeStart gate and state metrics (`cmd/provider`, `controller/statemetrics`) | which CRDs exist, which are known to the client | gated or immediate setup, periodic list | CRDs that come late and one by one, an error that ends the manager | every controller starts once its CRD exists, the process stays up |
| identity catalog, CRD generator (`tools/openapi2crd`) | none at run time | | | |

How they interact: a controller's `Connect` builds the client of its
ProviderConfig; `Observe`/`Delete` call the identity ladder, whose search fails
where the stamp's attribute is not defined, in which case the prober is asked
for a precise reason; `Create` asks the prober first. The drift decorator wraps
the controller's client. The gate and the dual client decide which endpoint an
`Observe` reads; at this commit no controller calls the gate, so its caller in
`ReadRouting` (write, record, observe; saving the annotation) is the one its
doc comments describe.

## 2. Modules

| module | models | state and actions |
|---|---|---|
| `Identity` | `identity.go` | operators `resolveByRef`, `resolveBySearch`, `searchByUID` over `owner`, the stamps of the Grid |
| `Ownership` | what the stamp promises; an abstract specification, which `ARecord` implements | `tenants`, `held`. Actions `Join`, `Leave`, `Claim`, `Take`, `Release` |
| `ARecord` | `recorda/{controller,cluster}.go`, `externalname.go`, the runtime's reconcile loop | `owner`/`data`: the Grid's objects by address; `cr`/`cache`: the MR in the API server and in the informer; `wk`: the reconcile under way. One action per request or API write: `Begin`, `ObserveGet`, `ObserveSearch`, `AddFinalizer`, `CreatePending`, `Create`, `CreateFails`, `UpdateCriticalAnnotations`, `LateInit`, `Update`, `Refresh`, `DeleteGet`, `DeleteSearch`, `Delete`, `RemoveFinalizer`, `Abort`; users `NewRecord`, `EditSpec`, `DeleteCR`, and `Unblock`, which removes `external-create-pending`; `Admin`; `Sync`. `begun` of an MR: a creation is on record and no outcome of it is; `Begin` then refuses |
| `Controllers` | the vocabulary of a controller's calls | the steps a program is made of; `Controller`, the shape of a table; the orders of calls that correctness rests on (`TracksFirst`, `SearchesFirst`, `ChecksFirst`, `RecordsSafely`) |
| `RecordControllers`, `AddressControllers`, `ZoneControllers`, `TrafficControllers` | `Connect`, `Observe`, `Create`, `Update`, `Delete`, `Setup` of each kind and scope | per kind its programs `XResolve`, `XClusterConnect`, `XNotFound`, `XGates`, ... as sequences of steps |
| `AllControllers` | | all of them, by kind and scope |
| `Startup` | `main.go`, the SafeStart gate, `statemetrics` | `crd`, `proc`. Actions `Start`, `OpenGate`, `Record`, `SyncTimeout`, `Install`, `Discover`, `Crash` |
| `Lifecycle` | the reconciler that runs a kind's programs, composed with `Startup` | `grid`, `def` (the identity attribute), `config`, `mr`, `mr.begun` as in `ARecord`, `wk.todo`: the steps left. One action per step; users, `Unblock`, administrators, the config's controller; `Fail`; `GiveUp` ends a creation with its failure on record |
| `Fields` | the vocabulary of the tables | which fields are booleans, numbers, lists, or never empty; `Kind`, the shape of a table; `Status`, what surrounds it in each scope; what correctness rests on in a table (`WellFormed`, `Agree`, `Preserves`); `joined`, the flags that a request sends as one |
| `DNSRecords`, `Networks`, `Zones`, `DTC` | `isUpToDate`, `lateInitialize`, the create and update wrappers and the `Parameters` type of each kind | one table per kind: `XParameters` (required, optional, immutable), `XCompared`, `XLateInitialized`, `XCreated`, `XUpdated`, and what is special about a field (its use flag, the CIDR it may come from, sent only if set, ...) |
| `RecordStatus`, `AddressStatus`, `ZoneStatus`, `TrafficStatus` | `observeFrom...`, the fields a GET asks for, conversions, `Observation` and the namespaced `Parameters` of each kind | `XObserved`, `XReturned`, `XClusterObservation`, ... |
| `Elements` | the types of the entries of lists, their conversions and `...Equal` functions | per type `X` (its fields), `XExchanged`, `XEqual`, `XFromCluster`, `XFromNamespaced`; `TakenAtFace`, the types known to be compared at face value. A host's IPv4 and IPv6 entry are one table, as `HostEnableDhcp` is sent for both |
| `Kinds` | all tables in both scopes | |
| `FieldSync` | the one reconcile all kinds share, at the level of fields; the Grid's GET, PUT and POST | `slice`: the fields looked at and what their kind does with them; `spec`, `wish` (what users last wrote), `obj`, `other` (some other field differs), `status`, `wk`. Actions `Observe`, `LateInit`, `Create`, `Update`, `Abort`, `EditSpec`, `Drift` |
| `References` | `ResolveReferences` of each kind and scope, its extractors, and the target's life as far as it shows | `target`, `grid`, `mr`, `obj`, `wk`. Actions `Resolve`, `SaveResolved`, `Observe`, `Create`, `Update`, `Abort`, the users' and the target controller's |
| `Prober` | `probe.go` | `cache`, `lock`, `pc`/`verdict` per caller, `def`: the definition in each Grid. One action per cache look-up, lock, request and store |
| `CircuitBreaker` | `circuitbreaker.go` | operators on a breaker record |
| `ReadRouting` | `gate.go`, `annotation.go`, `client.go`, `dualclient.go`, composed with `CircuitBreaker` | `primary`/`candidate`: how many changes each endpoint holds; `mark`: the annotation; `route`, `breaker` |
| `DriftDetection` | `driftdetection.go` around ARecord's `Observe`/`Update` | `obj`: our field `f`, the ignorable field `g`, the stamp; `wish`: the owner of `g`; `cr`; `wk` with the snapshot `captured` |
| `MC*` | constants for TLC | |
| `ARecord_proofs`, `ARecordOwnership_proofs`, `Lifecycle_proofs`, `FieldSync_proofs`, `References_proofs`, `Prober_proofs`, `ReadRouting_proofs`, `DriftDetection_proofs` | | theorems, with the inductive invariants they need (section 5) |

Abstractions. An address in `ARecord` stands for the identity fields (name,
ipv4Addr) and for the reference at once, since a WAPI reference is derived from
them; that a renamed object's old reference is a 404, or answers with a new
object at the old address, follows from this. The optional fields are one value.
`fresh` stands for resourceVersion: a whole-object write of a copy that is not
the API server's fails and ends the reconcile. `Abort` is a crash, a request
that failed before it took effect, a reply that was lost after it did (it
follows the action), a conflict, and a refusal of the prober. Within a creation
the two differ: after a failed call the runtime puts `external-create-failed` on
record (`CreateFails`, `GiveUp`), after a crash or a lost record nothing is, and
every later reconcile is refused before `Connect`, that of a deleted MR too,
since no controller is built with `WithDeterministicExternalName`
(`recorda/cluster.go:273-291` and likewise in all packages). In `ReadRouting`
a zone's history is a number and an endpoint holds a prefix of it.
In `FieldSync` a value is unset, empty (false, 0, "", no entries), on, or one of
two others; a field is looked at alone or with the fields it depends on, and all
the rest of the object is the bit `other`, which makes an Update happen for
somebody else's sake. That is sound for the functions as they are written: each
compares, fills in and sends a field by itself, apart from flags and CIDRs. A
value whose flag is off is ignored by a PUT and answered as the inherited one by
a GET, which is what the comments in every `isUpToDate` say of the WAPI; a
required name that a request leaves out (`Givens`) is chosen by the Grid.
An entry of a list is treated as a small object whose fields are all the user's
own (`Elements`): lists are sent and compared whole, entry by entry in order, so
one entry that is present on both sides tells what the functions do with it.
In `Lifecycle` a reference is a key and a turn, so that a PUT can change it
without a rename; a program runs to its first failing step, and lookups end at
the first that finds something. Kinds and scopes with the same programs are the
same to the model. Informer lag is `ARecord`'s subject and the prober's cached
verdict `Prober`'s: in `Lifecycle` a copy is stale only if somebody wrote
meanwhile, and a probe asks. In `References` an object's WAPI reference encodes
its name, and the Grid refuses to delete a target that is linked.
In `DriftDetection` identity and reference are fixed and the copy's staleness
is only that of a concurrent edit, both being `ARecord`'s subject; the path
grammar and the eligibility list are left out, the ignored path being one
they accept.

## 3. Runs

| run | question | shows |
|---|---|---|
| `arecord_owners` | two MRs, three addresses, an import, an edit, one failure anywhere | types; `UniqueOwnership`: no MR ever owns two objects, though Create is retried after lost replies with stale copies; `OwnerOnly`: no reconcile moves, restamps or destroys another MR's object; `Implements`: every step is one that `Ownership` allows |
| `arecord_live` | one MR with optional fields, an edit, a failure, an administrator who creates, deletes, renames or strips, a person who may lift an incomplete creation | `NoOrphan`: an MR that is gone left no object with its uid; `Converges`, `DeletionCompletes`, unless a creation stays without an outcome |
| `kinds` | the controllers of all 25 kinds from the start of the process to the end of the MR | `NoOrphan`, `NoTwin`, `ConfigKept`, `ReservedKept`; `StaysUp`, `Starts`, `Converges`, `DeletionCompletes` |
| `fields` | every field of every kind and of every type of entry, with its flag, CIDR or joined flag, in both scopes; an edit, a drift and a failure | `PutSettles`: after its own write the provider sees no drift; `Comparable`: where spec and status agree nothing will be written; `LeavesAlone`: an Update for one field keeps what the user left unset; `Obeys`: in the end the object has what the user asked for; `WritesEnd`; `Mirrors`: in the end the status shows the object |
| `references` | all reference fields of both scopes under both policies, a target that comes, goes and is renamed | `Placed`: no object is created without its reference; `Kept`: no resolved value is taken back; `Settles`: linked in the end, unless the value may not be resolved again. Its `ASSUME`s also evaluate what the theorems assume of the tables: `CallsInOrder` the orders of calls of all kinds in both scopes, `FunctionsAgree` the conditions on their fields, all fields of a kind at once |
| `prober` | three callers, two Grids, failures, administrators | `OneProbe`, `StaleBounded`, `NoFalseRefusal`, `Recovers` |
| `routing` | two records of a zone, outage, zone reassignment, lost and damaged watermarks | `ReadYourWrites`, `Unpinned`, `Resumes` |
| `drift` | an owner of the ignored field, a spec edit, Grid drift, a failure | `KeepsOwner`, `Settles`, `WritesEnd` |
| `arecord_stuck` (violation) | an administrator renames an MR's object, another MR takes its address, the first is deleted; no edit and no failure | finding 1 |
| `prober_credentials` (violation) | two credentials on one host | finding 2 |
| `drift_extattrs` (violation) | `forProvider.extAttrs` ignored | finding 3 |
| `references_early` (violation) | a pool refers to a server that is not created yet | finding 4 |

Every property of a passing run has a mutant: a plausible bug in one mapped
definition (its text is in the module, named `<definition>_<bug>`) under which
the same run fails.

Bounds, and why they are enough. Two MRs and three addresses are the least that
has a rename while another MR takes the old address; one import, one edit, one
failure and one act of an administrator each can happen at any step and combine
with one another; an incomplete creation may be lifted at any time, or never. The prober's two calls of one host and one of another give
every race for the lock; its TTL of 2 with a reply lag of 1 tells an entry
stored late from one stored in time. In `routing` two writes of two records of
one zone give the race between a write and the serial read after it; threshold
2 and backoff 1 give a breaker that counts, opens, half-opens and re-opens. In
`drift` the owner changes its mind twice, so a snapshot can be one and two
values old. In `fields` the slices of all kinds and entries in both scopes (810)
are sorted by what the tables say of their fields, and TLC takes one slice of
each profile: slices of one profile differ in names only. A slice has at most
three fields (two timers and their flag); one edit, one drift and one failure
combine at any step. In `kinds` the kinds are sorted by their programs in the
same way, one of each way of working is run, and one of them in both scopes; two
keys and two values, an object that is free, another's, or not to be touched,
one edit and one event (a crash, a failure, an administrator's act, the deletion
of the config) at any step. In `references` two names, two edits and one failure
let a target be renamed back, or deleted after it was resolved. `MaxEdits`, `MaxAborts`, `MaxAdmin`, `MaxWrites`, `MaxFaults`,
`MaxWishes`, `MaxDrifts`, `MaxLag`, `MaxCount`, `MaxEvents` are bounds of the models, not of
the program; the theorems hold for every value of them.

Deadlock checking is off in the runs of `ARecord` and `Lifecycle`, where
everything stops once the MRs are gone, and of `References`, where an unresolved
reference waits for its target.

## 4. Fairness

- `ARecord`: weak fairness of each MR's reconcile (the work queue retries every
  error and polls) and of the informer. None for users, administrators, failures,
  nor for `Unblock`: nobody has to lift an incomplete creation.
- `Prober`: weak fairness of each caller's steps and of the clock; strong
  fairness of taking the lock, since Go's `sync.Mutex` does not starve a waiter.
- `ReadRouting`: weak fairness of each reconcile, of replication and of time;
  none for the end of an outage, which is a premise of `Resumes`.
- `Startup` and `Lifecycle`: weak fairness of starting again (the kubelet), of the
  gate and of discovery, and of the reconcile while the process runs; none for people,
  `Unblock` included.
- `References`: weak fairness of the referrer's reconcile, of the target's, and of
  its record of the external name, the last step of its reconcile. None for
  users: a target need not come, nor stay.
- `FieldSync`: weak fairness of the reconcile; none for users, administrators
  or failures.
- `DriftDetection`: weak fairness of the reconcile; strong fairness of the
  owner's pass between two reconciles, which is what "the owner reasserts on its
  next pass" in `driftdetection.go` assumes.

## 5. Proofs

All are proved from the modules' `ASSUME`s on constants and hold for any number
of MRs, addresses, callers, records, keys, names and any bounds. Where a theorem
has a hypothesis it is part of its statement.

| theorem | statement | argument |
|---|---|---|
| `ARecord_proofs!NoOrphanHolds` (and `TypeCorrect`) | `Spec => []NoOrphan`, whatever administrators do | `OrphanInv`: the API server, informer and reconcile copies are never ahead of one another (`CopiesLag`), the finalizer once seen on a live MR is there (`FinalizerHolds`), nothing is stamped before it is on or after it is off (`FinalizerGuards`). The property alone is not inductive: it does not know that a POST runs under a finalizer |
| `ARecordOwnership_proofs!UniqueOwnershipHolds` | `OnlyDeletes => (Spec => []UniqueOwnership)` | adds: an MR referring to an unstamped object owns none (`AdoptsFirst`), and what `Observe` found is still so when it is acted upon (`ObservationHolds`) |
| `ARecordOwnership_proofs!OwnerOnlyHolds` | `NoAdmins /\ DisjointImports => (Spec => OwnerOnly)` | adds `Entitled`: who is about to change an object owns it, or is the only one who may adopt it |
| `ARecordOwnership_proofs!ImplementsHolds` | `NoAdmins /\ DisjointImports => (Spec => Implements)` | `Implements` is `Ownership!Spec` with `held` as the stamps and `tenants` as the MRs that carry the finalizer. From the invariants above every step is a step of `Ownership` or a stutter: the runtime's write that adds the finalizer joins, the removal of the finalizer leaves (`NoOrphan` gives that nothing is held), Create claims (`UniqueOwnership`), Update takes (`Entitled`), Delete releases, and all reads and API writes stutter |
| `Lifecycle_proofs!TypeCorrect` | `Spec => []TypeOK` | `Known`: what a reconcile knows is told by the steps it still has to make: an object was found before it is decided upon, and the fields of a PUT are filled in before it is sent |
| `Lifecycle_proofs!ConfigKeptHolds` | `TracksInOrder => (Spec => []ConfigKept)` | `ConfigInv`: the use of the config is on record from the step `track` on, the config was read after that, and so is there as long as the MR has its finalizer |
| `Lifecycle_proofs!StaysUpHolds` | `AllRecordSafely => (Spec => StaysUp)` | a recorder that survives a failed list never ends the process |
| `Lifecycle_proofs!NoOrphanHolds` | `SearchesInOrder => (Spec => []NoOrphan)`, whatever administrators do | `OrphanInv`: the object exists only under the finalizer, and when it is created or given up the search that cannot miss it (`Proof`: by stamp, or by a fixed key) has missed it. Needs `Shaped` (each function has its own steps, and the runtime's come before them), `Copies` (what a fresh copy and a stale one still say of the MR) and `SearchInv` (`Observe` searches after `Connect`, and decides once it has found something) |
| `Lifecycle_proofs!NoTwinHolds` | `SearchesInOrder /\ "rename" \notin AdminOps => (Spec => []NoTwin)` | `TwinInv`: an MR that refers to an unstamped object has none of its own, and what `Observe` found is still its own, or still nobody's, when `Update` stamps it |
| `Lifecycle_proofs!ReservedKeptHolds` | `SearchesInOrder /\ ChecksInOrder /\ "rename" \notin AdminOps => (Spec => ReservedKept)` | `ReservedInv`: what is about to be changed or deleted was recognised as not protected in this very reconcile, or can be told from the MR's own spec |
| `FieldSync_proofs!TypeCorrect` | `AllWellFormed => (Spec => []TypeOK)` | what is filled in is a value that users might have written, what is sent one that the Grid holds |
| `FieldSync_proofs!PutSettlesHolds` | `AllWellFormed /\ AllAgree => (Spec => []PutSettles)` | `SettleInv`: an object that nobody has touched since the provider wrote it is one it is content with, and is still as the reconcile under way has read it. A field that was sent reads as it was sent (`CarriedContent`), one that was not is filled in; a flag that is on once all has been filled in is on in the object; to fill in twice changes nothing (`LateTwice`). The property excepts, and so does the theorem, what is `Futile` and a spec that is `Torn` (section 6); of a spec that is not torn what is requested is what it says |
| `FieldSync_proofs!ComparableHolds` | `AllWellFormed /\ AllAgree => (Spec => []Comparable)` | field by field (`AgreesContent`), of any spec and any object |
| `FieldSync_proofs!LeavesAloneHolds` | `AllWellFormed /\ AllPreserve => (Spec => LeavesAlone)` | `Made`: what is sent was made of what this reconcile has read (`PutLeaves`) |
| `References_proofs!PlacedHolds` (and `TypeCorrect`) | `Spec => []Placed` | `Resolved`: past `Resolve` a reconcile has the field if its reference asks for one. `Placed` alone does not know what the reconcile's copy says when it creates |
| `References_proofs!KeptHolds` | `Spec => Kept` | a value changes only where the policy or the user wants it; the save writes what was resolved from the same spec |
| `Prober_proofs!OneProbeHolds`, `StaleBoundedHolds` (and `TypeCorrect`) | `Spec => []OneProbe`, `Spec => []StaleBounded` | `ProberInv`: who probes holds the host's lock, and an approval on its way is as old as the reply that carries it |
| `Prober_proofs!NoFalseRefusalHolds` | `SamePrivilege => (Spec => []NoFalseRefusal)` | `CachedRefusal`: a refusal in the cache is true of every call that may be answered with it |
| `ReadRouting_proofs!ReadYourWritesHolds` (and `TypeCorrect`) | `NoWrap => (Spec => []ReadYourWrites)` | `RoutingInv`: a change the candidate lacks is covered by a watermark (`Covered`), and a decision for the candidate stays right (`Cautious`) because replication only advances |
| `DriftDetection_proofs!KeepsOwnerHolds` (and `TypeCorrect`) | `Spec => KeepsOwner` | the snapshot of a quiet reconcile is the object's value, `Loyal` |

The theorems about `Lifecycle` are about any table of controllers: nothing is
unfolded of a kind's programs. What they need of a program is the order of a few
of its calls, stated in `Controllers` and named there by what it guarantees:

- `TracksInOrder`: `Connect` records the use of the ProviderConfig, and reads it
  after that;
- `SearchesInOrder`: `Observe` looks for the object by the stamp as well as by
  reference, or by a key that the CRD makes immutable, or is guarded against
  reporting absence at all; a kind with a stamp searches by nothing else; one
  request makes and one changes an object;
- `ChecksInOrder`: where an object is protected, it is recognised before the
  request that would touch it;
- `AllRecordSafely`: the state recorder survives a list that fails.

Every program of the 25 kinds in both scopes satisfies them: `CallsInOrder`
evaluates that. So a change of one controller that keeps the order keeps the
theorems, and one that breaks it is told by TLC in a second.

Likewise the theorems about `FieldSync` are about any table, and about any set of
its fields looked at together, several flags included, where the run `fields`
looks at three at most. They need of a table (in `Fields`):

- `WellFormed`: a flag is a boolean that no other flag governs, joined flags are
  booleans of the user's own that govern nothing, and every value of an attribute
  has a string;
- `Agree`: what `isUpToDate` compares is sent by Create and by Update, read and
  shown; it is filled in where the user or a request may leave it out, or is then
  not compared or the user's alone; what is not sent when empty cannot be empty; a
  flag is sent. `AllAgree` adds that a type is compared at face value only if it is
  one of `FaceValued` (`KnownAtFace`);
- `Preserves`: what Update sends is filled in first, unless it is left out when it
  is unset or is the user's alone.

`FunctionsAgree` evaluates them for every kind and every type of entry in both
scopes, each with all its fields, and leaves out of `Agree` (`Unsettled`) only the
addresses of A, AAAA and PTR records, which may be allocated and are not filled in,
and `lbAlternateMethod` of a pool. With them `Agree` is false, and they are the
fields of which TLC finds `PutSettles` violated (section 6): the condition tells
the faulty tables from the others.

The assumptions are needed. Administrators who strip a stamp or rename during a
search make a second object possible; two MRs that import one object take it
from each other (section 6); with an administrator who deletes, the object
destroyed by `Delete` need not be the one it verified; when a zone's uint32
serial wraps, a lagging candidate passes for caught up; credentials of different
privilege on one host get each other's verdicts (finding 2). In `Lifecycle`,
`NoTwin` and `ReservedKept` fail when an MR's object is renamed (by an
administrator, or by an Update whose refresh is lost) and an administrator then
renames another object to where it was: `Observe` adopts that one if it has no
stamp, an Update under way overwrites it, and a `Delete` that no longer finds it
turns to the MR's first object, which may be a protected one by then. The run
`kinds` has one event, a rename included, at any step, and the properties hold
there; the theorems have any number of events but no rename by administrators.
Each was seen as a TLC counterexample before the assumption was made.

Only model-checked: all liveness (TLAPS has no support for fairness and
ENABLED); `ReservedKept` and `NoTwin` under a rename; and of course the violation runs.

The excuses of `Converges` and `DeletionCompletes` are of four kinds: somebody
else's object answers at the stored reference, somebody else's has the identity
the spec asks for, the MR owns two objects, which `Resolve` refuses, or a creation
has no outcome on record (`Undecided`). The third can only be an administrator's
doing: without one `UniqueOwnership` is a theorem. The fourth holds only after a
crash or a lost record, and as long as nobody lifts it: TLC finds both properties
violated without it, and with it checks that an MR converges, or goes, once it is
lifted.
Those of `Lifecycle` are named `Refused`: the reference answers with another's
object, a definition can be told by its name only, or the object is one that is
protected.

## 6. Findings

1. `arecord_stuck`: `HandleReuseError` tells the operator to delete the MR, but
   `Observe` fails with that very error on the deletion path, so the finalizer
   stays while the other object does. The MR may even own a renamed object.
2. `prober_credentials`: `probe.go:154-158` requires a cache key per Grid and
   credential; `config.go:206` passes the host alone.
3. `drift_extattrs`: ignoring `extAttrs` makes the shadow comparison fail for
   ever, because the snapshot carries the provider's own stamp and
   `isUpToDate` strips it from the object only.
4. `references_early`: until the server of a pool has been created, its external
   name is its Kubernetes name; `reference.ExternalName()` takes that for the WAPI
   reference (`dtcpool/.../zz_generated.resolvers.go:28`), and under the default
   policy it is never resolved again. The same holds of the pools and zones of a
   load-balanced name. The fields extracted with `ExtractField` wait instead.

Met while modelling, without a run of its own: two MRs that import one unstamped
object both adopt it and the later PUT overwrites the stamp, although
`errors.go:10-14` says another MR's object is refused (`identity.go:257`; this is
what `DisjointImports` excludes); every caller of a half-open breaker is let
through, where `circuitbreaker.go:90-91` promises one trial; an MR for a view
that every Grid has is never gone, since `Delete` leaves the view and the next
`Observe` finds it, although `dnsview/controller.go:84-86` says "so the Kubernetes
object can still be removed" and `cluster.go:194-198` and `namespaced.go:216-220`
that "the finalizer clears" (`Protected` excuses `DeletionCompletes` from it, and
without that TLC finds it violated);
an attribute definition that was POSTed and whose reference is not on record (the
reply was lost, or the process died and somebody lifted the incomplete creation)
is left behind, as the pre-create guard reports it absent without looking
(`extensibleattributedef/namespaced.go:134`); a
definition that was POSTed but whose reference was not recorded is not found
again once the spec's name has been changed, and a second is made
(`apis/cluster/extensibleattributedef/v1alpha1`, where the name is mutable);
an object that an administrator renames to where an MR's own object was before it
was renamed is adopted as a second one.

A process that dies between the POST and the record of the reference, or loses that
record, does not recover by itself. `crashwindow_test.go:1-12` says that "the next
reconcile must still find the object through the identity ladder",
`identity.go:118-121` that the search "closes the create-crash window",
`recordns/controller.go:66-69` that it "doubles as create-crash-window recovery", and
README.md (1559, 1791, 1858) that "no special create-pending handling is required".
The tests call the controllers' methods one after the other; the runtime does not get
so far. It refuses until somebody removes `external-create-pending`, and only then is the
object found. What the ladder does achieve is what `UniqueOwnership`, `NoTwin` and
`NoOrphan` say: whoever lifts the creation, and whenever, no second object is made
and none is left behind, save for the attribute definitions above. Only a POST whose reply is lost to a process that survives
is recovered at once, because that counts as a failure on record.

After the convergence timeout has dropped a watermark, reads go to a candidate that never caught up (that is
what the timeout is for); an owner's write between the two reads of one
`Observe` counts as drift and is reverted once; an ignored field its owner has
cleared counts as not reported and gets the spec's value (a condition says so);
an object adopted in mode warn or disabled is never stamped.

Met in the field tables, seen in TLC or in the code:

- An A, AAAA or PTR record that gets its address from a CIDR never settles: the
  address is not filled in, `isUpToDate` compares the spec's empty one with the
  allocated one, and every reconcile PUTs an empty address
  (`recorda/controller.go:218`, `387-440`). TLC finds `PutSettles` violated;
  the run leaves these slices out (`Allocated` in `MCFieldSync`).
- A DTC pool's `lbAlternateMethod`, once set, cannot be set back to NONE: NONE
  is left out of the PUT (`dtcpool/controller.go:693`), the Grid keeps the old
  method, and every reconcile updates. Left out too (`Unclearable`).
- A host record with `ipv4Cidr` gets its address filled in, and if the object is
  then deleted behind the provider's back, `validateHostRecordAllocation`
  (`hostrecord/controller.go:719`) refuses to create it again because the spec
  has both. `Obeys` excuses it (`Contradicts`); a network, which has the same
  shape, lets the address win instead.
- `zoneauth_types.go:82` says that with `useGridZoneTimer` false the Grid's
  timers apply "regardless of what is set on this resource"; the controller
  turns the flag on when any of the five timers is set
  (`zoneauth/controller.go:501`), and late initialisation sets all five once it
  has been on, so that false has no effect after that.
- The `cloudApiCompatible` and `msServer` of a range template and the
  `descendantsAction` of an attribute definition are sent and never compared.
- In a view, `dnssecTrustedKeys`, `fixedRrsetOrderFqdns`, `sortlist`,
  `responseRateLimiting` and `scavengingSettings` are compared with
  `reflect.DeepEqual` (`dnsview/controller.go:260-268`, `318-325`) after false, 0
  and "" were read as nil: an entry in which the user wrote an explicit false
  never compares equal, and every reconcile updates. `nestedSliceEqual`'s comment
  guards against exactly this for the empty list. The properties excuse it
  (`Futile`) for the eight types of entry concerned, and hold for them otherwise.
- The `forwardTo` of a forwarding member is compared although its flag
  `useOverrideForwarders` is off (`zoneforward/controller.go:178-204`), while the
  flags within entries of views and authoritative zones are honoured; excused
  likewise. These nine types are listed by name (`TakenAtFace`). A table of any
  other type that compares so is not excused: the mutant of `PutSettles` compares
  a view's name servers so, and the condition `AllAgree` of the theorems is then
  false.
- A negative option number of a fixed address is sent as 0
  (`fixedaddress/controller.go:255-260`) and never compares equal. Of a host's
  addresses only the first is sent and compared.
- A host record sends one `enableDhcp`, on if `configureForDhcp` of its IPv4 or of
  its IPv6 entry is (`hostrecord/controller.go:752`, 793, 863), and compares each
  entry with its own (431, 443). With one true and the other not, the latter is
  never obeyed and every reconcile updates. TLC finds `PutSettles`, `WritesEnd`
  and `Obeys` violated; `Torn` names such specs in the first two, and `Obeys`
  leaves out the flag that is sent as on. Hosts whose flags agree are not excused.
- A reference with policy Always whose value the CRD makes immutable
  (`networkView`) stops every reconcile once the target is renamed: the save is
  rejected. The namespaced `dtclbdn`, `dtcpool`, `fixedaddress`, `hostrecord`,
  `ipv4sharednetwork`, `network` and `networkcontainer` resolve to cluster-scoped
  targets, `range`, `recordcname` and `recordptr` to namespaced ones.
- An attribute with several values is shown, filled in and written back as one
  string of them.
- A map or list that a user empties while the object has entries is filled in
  again from the object: of the collections only those a table calls `owned` can
  be emptied through the spec.

## 7. Not modelled, and why

- A POST that timed out and is carried out later, and two workers or replicas
  on one MR (`--leader-election` defaults to false): requests take effect before
  their reconcile ends, and a resource has one reconcile at a time.
- Of an incomplete creation: its annotations are times of one second's resolution,
  and the runtime compares them; a retry is assumed not to fall into the second of
  the attempt before. The record of a failure is one step with the failure, since
  the runtime repeats that write until it gets through, and nothing else writes
  these annotations meanwhile. `FieldSync`, `References` and `DriftDetection` have
  only those creations cut short whose failure is on record: what becomes of the
  others is the subject of `ARecord` and `Lifecycle`, and until a person acts
  nothing becomes of them.
- Management and deletion policies other than the default; the lag of the
  Grid's search index; pagination; HTTP, TLS and credential plumbing.
- `Update`'s fail-closed branch without a snapshot: `Observe` always precedes.
- Metrics, logging, conditions, deep copies and accessors (generated, without
  behaviour), CRD schemas apart from required, optional and immutable; the CRD
  generator `tools/openapi2crd` and the identity catalog, which run at build time.
- In `Lifecycle`: informer lag (`ARecord`); administrators who rename an object
  without a stamp, or rename onto a protected name; two address families of one
  kind (fixed at creation). The ProviderConfig controller's check and removal are
  one step, being the runtime's.
- In `References`: selectors with several matches, optional resolution, several
  entries at once.
- In `FieldSync`: fields that the spec has and no function but the schema knows,
  response-only fields of the status, the order and number of a list's entries,
  the stamp within `status.extAttrs` (`DriftDetection`), several use flags at
  once (in the run; the theorems have any number of fields), the
  allocation of host addresses by attribute filter, zones without a primary
  server (README.md:747), and how an object is found.

## 8. Plan

1. `ARecord` with a POST that takes effect late and with two workers on one MR
   (two replicas without leader election): which of the properties survive.
2. `Lifecycle!NoTwin` with renames, excusing an MR whose stored reference answers with
   an object that is not its own: which bound is left on the number of its objects.
3. The read path of a controller that calls the gate.
