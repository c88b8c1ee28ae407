----------------------------- MODULE Lifecycle ------------------------------
(***************************************************************************)
(* The life of one managed resource of any kind and scope: the runtime's   *)
(* reconciler runs the programs of the kind's controller (Controllers), in *)
(* a process that starts, is gated and crashes (Startup), with a           *)
(* ProviderConfig that its user may delete, against a Grid whose           *)
(* administrators and whose definition of the identity attribute are not   *)
(* the provider's.                                                         *)
(*                                                                         *)
(* Every step is a call that leaves the process, or a decision that ends a *)
(* function; todo holds the steps that the reconcile has still to make.    *)
(***************************************************************************)
EXTENDS Startup, FiniteSets

CONSTANTS
    Key,       \* what identifies an object: its name, address, zone...
    Reserved,  \* of an attribute definition or view, the name that is not to be touched
    Val,       \* the values of its other fields
    SpecVal,   \* what users set them to at first
    Unset,     \* a field that the spec leaves unset
    Absent, NoRef,
    FixedKeys, \* the kinds whose key cannot be edited
    Preexisting, \* by kind, what the Grid may hold at first
    AdminOps,  \* what administrators do in Grid Manager
    MaxEdits   \* bound on edits of the resource

VARIABLES
    grid,    \* grid[r]: the object that the reference r answers with
    def,     \* the identity attribute is defined
    config,  \* the ProviderConfig: its phase, whether its use is on record
    mr,      \* the managed resource in the API server
    wk,      \* the reconcile under way
    edits    \* edits left

life == <<grid, def, config, mr, wk, edits>>
vars == <<subject, crd, proc, left, grid, def, config, mr, wk, edits>>

(***************************************************************************)
(* A reference encodes the key and, where a PUT changes it for another     *)
(* reason, a turn.  own is whose stamp the object has; of a kind without   *)
(* stamps, who created it, which no controller can see.  A spec that is    *)
(* bad asks for an address and for a choice of one.  begun is that a       *)
(* creation is on record (external-create-pending) and no outcome of it is *)
(* (external-create-succeeded, external-create-failed).                    *)
(***************************************************************************)
Ref    == [key : Key, turn : {0, 1}]
Object == [val : Val, own : {"mine", "other", "nobody"}]
Grids  == [Ref -> Object \cup {Absent}]

\* At first nothing has the stamp of a resource that does not exist yet.
ASSUME LifecycleConstants ==
    /\ Reserved \in Key /\ Unset \notin Val /\ SpecVal \subseteq Val \cup {Unset}
    /\ Absent \notin Object /\ NoRef \notin Ref
    /\ \A n \in DOMAIN Kinds : \A g \in Preexisting[n] :
         g \in Grids /\ \A r \in Ref : g[r] # Absent => g[r].own # "mine"
    /\ AdminOps \subseteq {"delete", "edit", "rename", "undefine"}
    /\ MaxEdits \in Nat

NoMR == [phase |-> "none"]
Gone == [phase |-> "gone"]
MRs  == [phase : {"live", "deleting"}, fin : BOOLEAN, begun : BOOLEAN,
         ext : Ref \cup {NoRef}, key : Key, val : Val \cup {Unset}, bad : BOOLEAN]

Idle  == [todo |-> <<>>]
Steps == ConnectSteps \cup ObserveSteps \cup CreateSteps \cup UpdateSteps \cup DeleteSteps
             \cup {"decide", "finalizer", "pending", "late", "unfinalize"}
Works == [todo : Seq(Steps), mr : MRs, fresh : BOOLEAN, at : Ref \cup {NoRef},
          how : {"none", "found", "adopted", "recovered"}, seen : Object \cup {Absent}]

Exists(r)  == grid[r] # Absent
Mine       == {r \in Ref : Exists(r) /\ grid[r].own = "mine"}
Named(x)   == {r \in Ref : r.key = x /\ Exists(r)}
Stamped    == Among("uid", S.client.observe)
Renamable  == subject.kind \notin FixedKeys
Managed    == mr.phase \in {"live", "deleting"}

TypeOK ==
    /\ StartupTypeOK
    /\ grid \in Grids
    /\ def \in BOOLEAN
    /\ config \in [phase : {"live", "deleting", "gone"}, used : BOOLEAN]
    /\ mr \in MRs \cup {NoMR, Gone}
    /\ wk \in Works \cup {Idle}
    /\ edits \in 0..MaxEdits

Init ==
    /\ StartupInit
    /\ grid \in Preexisting[subject.kind]
    /\ def = FALSE
    /\ config = [phase |-> "live", used |-> FALSE]
    /\ mr = NoMR /\ wk = Idle
    /\ edits = MaxEdits

-----------------------------------------------------------------------------
(***************************************************************************)
(* Users, administrators, and the ProviderConfig's own controller, which   *)
(* lets a deleted one go when no use is on record.  The garbage collector  *)
(* removes the record of a resource that is gone.  What has no stamp and   *)
(* is renamed in the Grid is lost to any controller: nobody does that.     *)
(***************************************************************************)
Outdate == wk' = IF wk = Idle THEN Idle ELSE [wk EXCEPT !.fresh = FALSE]

NewMR ==
    /\ mr = NoMR /\ crd = "mapped"
    /\ \E x \in Key, v \in SpecVal, e \in {NoRef} \cup {r \in Ref : Exists(r)},
          b \in IF Among("valid", S.client.create) THEN BOOLEAN ELSE {FALSE} :
         mr' = [phase |-> "live", fin |-> FALSE, begun |-> FALSE,
                ext |-> e, key |-> x, val |-> v, bad |-> b]
    /\ UNCHANGED <<grid, def, config, wk, left, edits>>

EditMR ==
    /\ mr.phase = "live" /\ edits > 0
    /\ edits' = edits - 1
    /\ \E x \in IF Renamable THEN Key ELSE {mr.key}, v \in Val \cup {mr.val} :
         /\ <<x, v, FALSE>> # <<mr.key, mr.val, mr.bad>>
         /\ mr' = [mr EXCEPT !.key = x, !.val = v, !.bad = FALSE]
    /\ Outdate
    /\ UNCHANGED <<grid, def, config, left>>

DeleteMR ==
    /\ mr.phase = "live"
    /\ IF mr.fin THEN mr' = [mr EXCEPT !.phase = "deleting"] /\ UNCHANGED config
                 ELSE mr' = Gone /\ config' = [config EXCEPT !.used = FALSE]
    /\ Outdate
    /\ UNCHANGED <<grid, def, left, edits>>

\* Somebody has looked at the Grid and removes external-create-pending, which is what
\* the runtime asks for.  Nobody has to.
Unblock ==
    /\ Managed /\ mr.begun
    /\ mr' = [mr EXCEPT !.begun = FALSE]
    /\ Outdate
    /\ UNCHANGED <<grid, def, config, left, edits>>

DeleteConfig ==
    /\ config.phase = "live" /\ Spend
    /\ config' = [config EXCEPT !.phase = "deleting"]
    /\ UNCHANGED <<grid, def, mr, wk, edits>>

ReleaseConfig ==
    /\ config.phase = "deleting" /\ ~config.used
    /\ config' = [config EXCEPT !.phase = "gone"]
    /\ UNCHANGED <<grid, def, mr, wk, left, edits>>

Admin ==
    /\ Spend
    /\ \/ /\ "delete" \in AdminOps
          /\ \E r \in Ref : Exists(r) /\ grid' = [grid EXCEPT ![r] = Absent]
          /\ UNCHANGED def
       \/ /\ "edit" \in AdminOps
          /\ \E r \in Ref, v \in Val :
               /\ Exists(r) /\ grid[r].val # v
               /\ grid' = [grid EXCEPT ![r].val = v]
          /\ UNCHANGED def
       \/ /\ "rename" \in AdminOps
          /\ \E r \in Ref, x \in Key \ {Reserved} :
               /\ Stamped /\ Exists(r) /\ Named(x) = {}
               /\ grid' = [grid EXCEPT ![r] = Absent, ![[r EXCEPT !.key = x]] = grid[r]]
          /\ UNCHANGED def
       \/ "undefine" \in AdminOps /\ def /\ def' = FALSE /\ UNCHANGED grid
    /\ UNCHANGED <<config, mr, wk, edits>>

-----------------------------------------------------------------------------
(***************************************************************************)
(* The reconcile's own moves.                                              *)
(***************************************************************************)
At(step) == wk # Idle /\ Head(wk.todo) = step

\* The rest of the steps; a reconcile that has none left is over.
Go(w, steps) == wk' = IF steps = <<>> THEN Idle ELSE [w EXCEPT !.todo = steps]
Proceed(w)   == Go(w, Tail(w.todo))
Return       == wk' = Idle

\* What fails within Create is put on record, by a write of the annotations that is
\* repeated until it gets through; elsewhere nothing is on record that could be lifted.
GiveUp == Return /\ mr' = IF Managed THEN [mr EXCEPT !.begun = FALSE] ELSE mr

\* What remains when the search is over.
Searched(w) ==
    LET rest    == Tail(w.todo)
        further == {i \in 1..Len(rest) + 1 : i \in DOMAIN rest => rest[i] \notin Lookups}
    IN  SubSeq(rest, CHOOSE i \in further : \A j \in further : i <= j, Len(rest))

Found(r, how) == LET w == [wk EXCEPT !.at = r, !.how = how, !.seen = grid[r]] IN Go(w, Searched(w))
Missed        == Proceed([wk EXCEPT !.at = NoRef, !.how = "none"])

\* The runtime refuses to proceed with a creation whose outcome is unknown, be the
\* resource deleted or not, as no controller calls its external names deterministic.
Begin ==
    /\ Serving /\ wk = Idle /\ Managed /\ ~mr.begun
    /\ wk' = [todo |-> S.connect \o S.client.observe \o <<"decide">>, mr |-> mr, fresh |-> TRUE,
              at |-> NoRef, how |-> "none", seen |-> Absent]
    /\ UNCHANGED <<grid, def, config, mr, left, edits>>

(***************************************************************************)
(* Connect.                                                                *)
(***************************************************************************)
Track ==
    /\ At("track")
    /\ config' = [config EXCEPT !.used = Managed]
    /\ Proceed(wk)
    /\ UNCHANGED <<grid, def, mr, left, edits>>

GetConfig ==
    /\ At("config") \/ At("byKind")
    /\ IF config.phase = "gone" THEN Return ELSE Proceed(wk)
    /\ UNCHANGED <<grid, def, config, mr, left, edits>>

(***************************************************************************)
(* Where the object is.  Delete is stricter than Observe, and does not     *)
(* take an object without a stamp.                                         *)
(***************************************************************************)
Releasing == Among("delete", wk.todo)

Guard ==
    /\ At("guard")
    /\ IF wk.mr.ext = NoRef THEN Go(wk, Searched(wk)) ELSE Proceed(wk)
    /\ UNCHANGED <<grid, def, config, mr, left, edits>>

ByRef ==
    LET r == wk.mr.ext IN
    /\ At("ref")
    /\ CASE r = NoRef \/ ~Exists(r) ->
                IF r = NoRef \/ Stamped \/ "typed" \in K.notFound THEN Missed ELSE Return
         [] r # NoRef /\ Exists(r) ->
                IF ~Stamped \/ grid[r].own = "mine" THEN Found(r, "found")
                ELSE IF grid[r].own = "nobody" /\ ~Releasing THEN Found(r, "adopted")
                ELSE Return
    /\ UNCHANGED <<grid, def, config, mr, left, edits>>

\* A search by an attribute that is not defined fails; the next one finds it defined.
ByUID ==
    /\ At("uid")
    /\ def' = TRUE
    /\ IF ~def \/ Cardinality(Mine) > 1 THEN Return
       ELSE IF Mine = {} THEN Missed
       ELSE \E r \in Mine : Found(r, "recovered")
    /\ UNCHANGED <<grid, config, mr, left, edits>>

ByKey ==
    /\ At("key")
    /\ IF Named(wk.mr.key) = {} THEN Missed
       ELSE \E r \in Named(wk.mr.key) : Found(r, "recovered")
    /\ UNCHANGED <<grid, def, config, mr, left, edits>>

\* That the reference is stale does not show whose the object is.
RefuseKey ==
    /\ At("refuse")
    /\ IF Named(wk.mr.key) = {} THEN Missed ELSE Return
    /\ UNCHANGED <<grid, def, config, mr, left, edits>>

-----------------------------------------------------------------------------
(***************************************************************************)
(* The end of Observe, and what the runtime makes of it.  An unset field   *)
(* is filled in, a reference that was recovered is recorded, and an        *)
(* adopted object is never up to date, so that Update stamps it.           *)
(***************************************************************************)
\* Mutant: an unset field stays unset.
Filled_not(w) == [w.mr EXCEPT !.ext = IF w.how = "recovered" THEN w.at ELSE @]

Filled(w) == [w.mr EXCEPT !.val = IF @ = Unset THEN w.seen.val ELSE @,
                          !.ext = IF w.how = "recovered" THEN w.at ELSE @]

\* Mutant: an adopted object may be up to date.
UpToDate_adopted(w) ==
    /\ Filled(w).val = w.seen.val
    /\ Renamable => w.mr.key = w.at.key

UpToDate(w) ==
    /\ w.how # "adopted"
    /\ Filled(w).val = w.seen.val
    /\ Renamable => w.mr.key = w.at.key

\* Mutant: an object that has been renamed since counts as absent.
ResourceExists_sameKey(w) ==
    w.how # "none" /\ (w.mr.phase = "live" /\ w.how = "recovered" => w.at.key = w.mr.key)

ResourceExists(w) == w.how # "none"

Optional(condition, step) == IF condition THEN <<step>> ELSE <<>>

Decide ==
    /\ At("decide")
    /\ IF ~ResourceExists(wk)
       THEN Go(wk, IF wk.mr.phase = "deleting" THEN <<"unfinalize">>
                   ELSE Optional(~wk.mr.fin, "finalizer") \o <<"pending">> \o S.client.create)
       ELSE Go([wk EXCEPT !.mr = Filled(wk)],
               IF wk.mr.phase = "deleting" THEN S.client.delete
               ELSE Optional(~wk.mr.fin, "finalizer")
                      \o Optional(Filled(wk) # wk.mr, "late")
                      \o (IF UpToDate(wk) THEN <<>> ELSE S.client.update))
    /\ UNCHANGED <<grid, def, config, mr, left, edits>>

\* A write of the whole resource, which a stale copy does not survive.
Persist(r) ==
    IF wk.fresh THEN mr' = r /\ Proceed([wk EXCEPT !.mr = IF r = Gone THEN @ ELSE r])
                ELSE Return /\ UNCHANGED mr

AddFinalizer ==
    /\ At("finalizer")
    /\ Persist([wk.mr EXCEPT !.fin = TRUE])
    /\ UNCHANGED <<grid, def, config, left, edits>>

Save ==
    /\ At("pending") \/ At("late")
    /\ Persist([wk.mr EXCEPT !.begun = At("pending")])
    /\ UNCHANGED <<grid, def, config, left, edits>>

RemoveFinalizer ==
    /\ At("unfinalize")
    /\ Persist(Gone)
    /\ config' = [config EXCEPT !.used = @ /\ ~wk.fresh]
    /\ UNCHANGED <<grid, def, left, edits>>

\* A write of the annotations alone, whatever else has changed: the reference, and after
\* a creation that it succeeded.
Name ==
    /\ At("name") \/ At("refresh")
    /\ mr' = IF Managed THEN [mr EXCEPT !.ext = wk.mr.ext, !.begun = @ /\ At("refresh")]
                        ELSE mr
    /\ Return
    /\ UNCHANGED <<grid, def, config, left, edits>>

-----------------------------------------------------------------------------
(***************************************************************************)
(* What Create, Update and Delete check first.                             *)
(***************************************************************************)
Probe ==
    /\ At("probe")
    /\ def' = TRUE
    /\ Proceed(wk)
    /\ UNCHANGED <<grid, config, mr, left, edits>>

Refuses ==
    \/ At("valid") /\ wk.mr.bad
    \/ At("reserved") /\ wk.mr.key = Reserved
    \/ At("resolved") /\ wk.mr.ext # NoRef /\ Exists(wk.mr.ext) /\ wk.mr.ext.key = Reserved
    \/ At("wellKnown") /\ wk.at.key = Reserved

Check ==
    /\ \E step \in {"valid", "reserved", "resolved", "wellKnown"} : At(step)
    /\ IF Refuses THEN GiveUp ELSE Proceed(wk) /\ UNCHANGED mr
    /\ UNCHANGED <<grid, def, config, left, edits>>

(***************************************************************************)
(* The requests.  The Grid refuses a key that is taken and a stamp that is *)
(* not defined, and lets a PUT change whatever is at the reference.        *)
(***************************************************************************)
Accepts == Stamped => def

Post ==
    LET r == [key |-> wk.mr.key, turn |-> 0] IN
    /\ At("post")
    /\ IF Accepts /\ Named(wk.mr.key) = {}
       THEN /\ \E v \in IF wk.mr.val = Unset THEN Val ELSE {wk.mr.val} :
                 grid' = [grid EXCEPT ![r] = [val |-> v, own |-> "mine"]]
            /\ Proceed([wk EXCEPT !.mr.ext = r])
            /\ UNCHANGED mr
       ELSE GiveUp /\ UNCHANGED grid
    /\ UNCHANGED <<def, config, left, edits>>

\* Where a PUT may leave the object.
Moves(r) == IF Renamable THEN {[r EXCEPT !.key = wk.mr.key]}
            ELSE IF Stamped THEN {r} ELSE [key : {r.key}, turn : {0, 1}]

Put ==
    LET r == wk.mr.ext IN
    /\ At("put")
    /\ IF Accepts /\ Exists(r) /\ (Renamable => Named(wk.mr.key) \subseteq {r})
       THEN \E q \in Moves(r) :
              /\ grid' = [grid EXCEPT ![r] = Absent,
                            ![q] = [val |-> wk.mr.val,
                                    own |-> IF Stamped THEN "mine" ELSE grid[r].own]]
              /\ IF q = r THEN Return ELSE Proceed([wk EXCEPT !.mr.ext = q])
       ELSE Return /\ UNCHANGED grid
    /\ UNCHANGED <<def, config, mr, left, edits>>

\* A 404 leads on to what is left to look at, if it is recognised.
Delete ==
    LET r == wk.at IN
    /\ At("delete")
    /\ IF r # NoRef /\ Exists(r)
       THEN grid' = [grid EXCEPT ![r] = Absent] /\ Return
       ELSE /\ IF r # NoRef /\ "status" \in K.notFound THEN Proceed(wk) ELSE Return
            /\ UNCHANGED grid
    /\ UNCHANGED <<def, config, mr, left, edits>>

\* A call fails, or the reply to the last one is lost: a POST without a reply has failed
\* for all the runtime knows.  What is to be put on record may be lost, too.
Fail ==
    /\ wk # Idle /\ Spend
    /\ \/ GiveUp
       \/ Return /\ UNCHANGED mr
    /\ UNCHANGED <<grid, def, config, edits>>

-----------------------------------------------------------------------------
People == NewMR \/ EditMR \/ DeleteMR \/ Unblock \/ DeleteConfig \/ Admin

Reconcile ==
    \/ Begin \/ Track \/ GetConfig
    \/ Guard \/ ByRef \/ ByUID \/ ByKey \/ RefuseKey \/ Decide
    \/ AddFinalizer \/ Save \/ RemoveFinalizer \/ Name
    \/ Probe \/ Check \/ Post \/ Put \/ Delete

Next ==
    \/ (People \/ ReleaseConfig \/ Reconcile \/ Fail) /\ UNCHANGED <<subject, crd, proc>>
    \/ (Boot \/ SyncTimeout) /\ UNCHANGED life
    \/ Crash /\ wk' = Idle /\ UNCHANGED <<grid, def, config, mr, edits>>

Spec == Init /\ [][Next]_vars

\* The work queue reconciles again and again while the process runs.
FairSpec == Spec /\ StartupFairness /\ WF_vars(Reconcile /\ UNCHANGED startup)

-----------------------------------------------------------------------------
\* A resource that is gone has left no object behind: the finalizer is on before the
\* POST, and comes off when neither the reference nor a search leads to the object.
\* Attribute definitions are left out: they are not searched for before they are named.
NoOrphan ==
    mr.phase \in {"none", "gone"} /\ ~Among("guard", S.client.observe) => Mine = {}

\* No controller makes a second object for its resource, whatever is lost between the
\* POST, the record of its reference and a change of its key.  Attribute definitions are
\* left out here too: one that was not named is not found again when the spec has another
\* name.  One act of an administrator does not bring a second object about; where the
\* resource's own was renamed, one that is put in its place is then taken for it.
NoTwin == ~Among("guard", S.client.observe) => Cardinality(Mine) <= 1

\* The ProviderConfig stays as long as a resource needs it to delete its object: its use
\* is on record before it is read.
ConfigKept == Managed /\ mr.fin => config.phase # "gone"

\* The definition of the identity attribute is never changed or deleted, not even by a
\* resource of another name that was given its reference, and no view that the Grid
\* comes with is deleted.
ReservedKept ==
    [][\A r \in Ref : r.key = Reserved /\ Exists(r) /\ wk' # wk /\ wk # Idle =>
         \/ grid'[r] = grid[r]
         \/ ~Among("reserved", S.client.update)
              /\ (Among("wellKnown", S.client.delete) => ~At("delete"))]_vars

(***************************************************************************)
(* What a controller refuses to go on with.                                *)
(***************************************************************************)
Answers == mr.ext # NoRef /\ Exists(mr.ext)

\* The reference answers with another's object, or to be deleted with one nobody stamped.
Misdirected ==
    /\ Answers /\ Stamped
    /\ grid[mr.ext].own \in IF mr.phase = "live" THEN {"other"} ELSE {"other", "nobody"}

\* Without a reference that answers, the name alone shows nothing.
Unverified == Among("refuse", S.client.observe) /\ ~Answers /\ Named(mr.key) # {}

\* A view that the Grid comes with is not deleted, and as Observe finds it again the
\* resource keeps its finalizer: it stays, although the comments at isWellKnownDNSViewName
\* and at dnsview's Delete say that the finalizer clears.
Protected ==
    \/ Among("reserved", S.client.delete)
         /\ (mr.key = Reserved \/ (Answers /\ mr.ext.key = Reserved))
    \/ Among("wellKnown", S.client.delete) /\ mr.phase = "deleting"
         /\ \E r \in Mine : r.key = Reserved

Refused == Managed /\ (Misdirected \/ Unverified \/ Protected)

\* The key that the spec asks for belongs to another object.
Taken == (Renamable \/ ~Answers) /\ \E r \in Named(mr.key) : r # mr.ext

Synced ==
    /\ Answers
    /\ Stamped => grid[mr.ext].own = "mine"
    /\ Renamable => mr.ext.key = mr.key
    /\ mr.val = grid[mr.ext].val

\* A creation was cut short before its outcome was on record, and nobody has lifted that.
Undecided == Managed /\ mr.begun /\ left < MaxEvents

\* In the end the Grid has what the spec says at the reference that is on record, unless
\* that is refused, the key is taken, the spec contradicts itself, the
\* ProviderConfig went before there was an object, or nobody knows what came of a creation.
Converges ==
    \/ <>[]Undecided
    \/ <>[](mr.phase = "live" /\ Synced)
    \/ <>[](mr.phase # "live")
    \/ []<>(mr.phase = "live" /\ (Refused \/ Taken \/ mr.bad \/ config.phase = "gone"))

\* A deleted resource goes, and so does its object, unless that is refused or nobody knows
\* what came of a creation.
DeletionCompletes ==
    []<>Refused \/ <>[]Undecided \/ (mr.phase = "deleting" ~> mr.phase = "gone")
=============================================================================
