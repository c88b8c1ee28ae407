------------------------------- MODULE ARecord -------------------------------
(***************************************************************************)
(* The life of ARecord managed resources that share one Grid: the          *)
(* controllers of internal/controller/recorda, driven by crossplane-       *)
(* runtime's reconciler, against the WAPI.                                  *)
(*                                                                         *)
(* Every call that leaves the process (a WAPI request, a write to the API  *)
(* server) is a step of its own, so that users, Grid administrators, other *)
(* managed resources and crashes come in between.  The order of the calls  *)
(* of a reconcile is the runtime's: Observe; for a deleted resource,       *)
(* Delete or the removal of the finalizer; otherwise the finalizer, then   *)
(* Create, or the late-initialisation write and Update.                    *)
(***************************************************************************)
EXTENDS Identity, Naturals

CONSTANTS
    Val,          \* values of the record's optional fields (comment, ttl, ...)
    Empty,        \* the empty value, what an unset field is sent as
    Nil,          \* a field the spec leaves unset
    SpecVal,      \* what users set the optional fields of a spec to
    Preexisting,  \* addresses of the Grid's objects nobody has stamped
    Imports,      \* Imports[m]: references a user may set on m to adopt
    AdminOps,     \* what administrators do in Grid Manager
    MaxEdits,     \* bound on edits of specs
    MaxAborts,    \* bound on reconciles that are cut short
    MaxAdmin      \* bound on administrators' operations

ASSUME ARecordConstants ==
    /\ Empty \in Val /\ Nil \notin Val
    /\ SpecVal \subseteq Val \cup {Nil}
    /\ Preexisting \subseteq Addr
    /\ Imports \in [UID -> SUBSET Addr]
    /\ AdminOps \subseteq {"create", "delete", "rename", "strip"}
    /\ {MaxEdits, MaxAborts, MaxAdmin} \subseteq Nat

VARIABLES
    owner,  \* owner[a]: who the object at a is stamped with
    data,   \* data[a]: the optional fields of the object at a
    cr,     \* cr[m]: the managed resource in the API server
    cache,  \* cache[m]: the managed resource in the controller's informer
    wk,     \* wk[m]: the reconcile of m under way
    left    \* operations users, failures and administrators have left

vars == <<owner, data, cr, cache, wk, left>>

(***************************************************************************)
(* A managed resource.  ext is the external-name annotation (NoRef while   *)
(* it is the resource's own Kubernetes name), addr the identity fields of  *)
(* spec.forProvider (name, ipv4Addr) and val its optional ones.  begun is  *)
(* that a creation is on record (external-create-pending) and no outcome   *)
(* of it is (external-create-succeeded, external-create-failed).           *)
(***************************************************************************)
LiveCR == [phase : {"live", "deleting"}, fin : BOOLEAN, begun : BOOLEAN,
           ext : Addr \cup {NoRef}, addr : Addr, val : Val \cup {Nil}]
NoCR   == [phase |-> "none"]
GoneCR == [phase |-> "gone"]
CRs    == LiveCR \cup {NoCR, GoneCR}

(***************************************************************************)
(* A reconcile: the call it makes next (pc), its copy of the managed       *)
(* resource, whether that copy has the API server's resourceVersion, and   *)
(* what Observe reported.                                                  *)
(***************************************************************************)
PCs == {"get", "search", "finalizer", "pending", "post", "name", "late",
        "put", "refresh", "dget", "dsearch", "delete", "unfinalize"}
Working == [pc : PCs, mr : LiveCR, fresh : BOOLEAN,
            obs : {"none", "absent", "synced", "drift"}, late : BOOLEAN]
Idle    == [pc |-> "idle"]

TypeOK ==
    /\ owner \in [Addr -> UID \cup {NoStamp, Absent}]
    /\ data  \in [Addr -> Val]
    /\ cr    \in [UID -> CRs]
    /\ cache \in [UID -> CRs]
    /\ wk    \in [UID -> Working \cup {Idle}]
    /\ left  \in [{"edit", "abort", "admin"} -> Nat]

Init ==
    /\ owner = [a \in Addr |-> IF a \in Preexisting THEN NoStamp ELSE Absent]
    /\ data \in {d \in [Addr -> Val] : \A a \in Addr \ Preexisting : d[a] = Empty}
    /\ cr    = [m \in UID |-> NoCR]
    /\ cache = [m \in UID |-> NoCR]
    /\ wk    = [m \in UID |-> Idle]
    /\ left  = [edit |-> MaxEdits, abort |-> MaxAborts, admin |-> MaxAdmin]

Spend(k) == left[k] > 0 /\ left' = [left EXCEPT ![k] = @ - 1]

-----------------------------------------------------------------------------
(***************************************************************************)
(* Users of the Kubernetes API.  A write by anyone but the reconcile makes *)
(* the reconcile's copy stale: its next whole-object write conflicts.      *)
(***************************************************************************)
Exists(m) == cr[m].phase \in {"live", "deleting"}

Write(m, r) == cr' = [cr EXCEPT ![m] = r]

Outdate(m) == wk' = [wk EXCEPT ![m] = IF @ = Idle THEN @
                                      ELSE [@ EXCEPT !.fresh = FALSE]]

NewRecord(m) ==
    /\ cr[m] = NoCR
    /\ \E a \in Addr, v \in SpecVal, e \in {NoRef} \cup Imports[m] :
         Write(m, [phase |-> "live", fin |-> FALSE, begun |-> FALSE, ext |-> e,
                   addr |-> a, val |-> v])
    /\ UNCHANGED <<owner, data, cache, wk, left>>

EditSpec(m) ==
    /\ cr[m].phase = "live"
    /\ \E a \in Addr, v \in SpecVal :
         /\ <<a, v>> # <<cr[m].addr, cr[m].val>>
         /\ Write(m, [cr[m] EXCEPT !.addr = a, !.val = v])
    /\ Outdate(m)
    /\ Spend("edit")
    /\ UNCHANGED <<owner, data, cache>>

\* A finalizer keeps the deleted resource until the controller removes it.
DeleteCR(m) ==
    /\ cr[m].phase = "live"
    /\ Write(m, IF cr[m].fin THEN [cr[m] EXCEPT !.phase = "deleting"] ELSE GoneCR)
    /\ Outdate(m)
    /\ UNCHANGED <<owner, data, cache, left>>

\* Somebody has looked at the Grid and removes external-create-pending, which is
\* what the runtime asks for.  Nobody has to.
Unblock(m) ==
    /\ Exists(m) /\ cr[m].begun
    /\ Write(m, [cr[m] EXCEPT !.begun = FALSE])
    /\ Outdate(m)
    /\ UNCHANGED <<owner, data, cache, left>>

(***************************************************************************)
(* Administrators work in Grid Manager, behind the provider's back.        *)
(***************************************************************************)
Admin ==
    /\ Spend("admin")
    /\ \/ /\ "create" \in AdminOps
          /\ \E a \in Addr, v \in Val :
               /\ owner[a] = Absent
               /\ owner' = [owner EXCEPT ![a] = NoStamp]
               /\ data'  = [data EXCEPT ![a] = v]
       \/ /\ "delete" \in AdminOps
          /\ \E a \in Addr :
               /\ owner[a] # Absent
               /\ owner' = [owner EXCEPT ![a] = Absent]
               /\ data'  = [data EXCEPT ![a] = Empty]
       \/ /\ "rename" \in AdminOps
          /\ \E a, b \in Addr :
               /\ owner[a] # Absent /\ owner[b] = Absent
               /\ owner' = [owner EXCEPT ![a] = Absent, ![b] = owner[a]]
               /\ data'  = [data EXCEPT ![a] = Empty, ![b] = data[a]]
       \/ /\ "strip" \in AdminOps
          /\ \E a \in Addr :
               /\ owner[a] \in UID
               /\ owner' = [owner EXCEPT ![a] = NoStamp]
          /\ UNCHANGED data
    /\ UNCHANGED <<cr, cache, wk>>

\* The informer catches up with the API server.
Sync(m) ==
    /\ cache[m] # cr[m]
    /\ cache' = [cache EXCEPT ![m] = cr[m]]
    /\ UNCHANGED <<owner, data, cr, wk, left>>

-----------------------------------------------------------------------------
(***************************************************************************)
(* The fields a spec leaves unset.                                          *)
(***************************************************************************)
\* Mutant: an unset field is sent as it is.
strOrEmpty_raw(v) == v

strOrEmpty(v) == IF v = Nil THEN Empty ELSE v

lateInitialize(v, observed) == IF v = Nil /\ observed # Empty THEN observed ELSE v

isUpToDate(r, a) == r.addr = a /\ strOrEmpty(r.val) = data[a]

(***************************************************************************)
(* The reconcile's own moves.  Continue goes on to the call p with copy r; *)
(* Return ends the reconcile, with or without an error: memory is gone and *)
(* the work queue will start another one.                                  *)
(***************************************************************************)
Continue(m, p, r) == wk' = [wk EXCEPT ![m] = [@ EXCEPT !.pc = p, !.mr = r]]

Return(m) == wk' = [wk EXCEPT ![m] = Idle]

At(m, p) == wk[m].pc = p

observeRefFor(ext) == IF ext = NoRef THEN "search" ELSE "get"

\* The reconciler reads the managed resource from its informer cache.  It refuses to
\* proceed with a creation whose outcome is unknown, be the resource deleted or not, as
\* the controllers do not say that their external names are deterministic.
Begin(m) ==
    /\ wk[m] = Idle
    /\ cache[m].phase \in {"live", "deleting"} /\ ~cache[m].begun
    /\ wk' = [wk EXCEPT ![m] =
                [pc |-> observeRefFor(cache[m].ext), mr |-> cache[m],
                 fresh |-> cache[m] = cr[m], obs |-> "none", late |-> FALSE]]
    /\ UNCHANGED <<owner, data, cr, cache, left>>

(***************************************************************************)
(* What the runtime does with an observation.                              *)
(***************************************************************************)
AfterFinalizer(obs, late) ==
    CASE obs = "absent"  -> "pending"
      [] obs # "absent" /\ late -> "late"
      [] obs = "drift" /\ ~late -> "put"
      [] OTHER -> "idle"

AfterObserve(r, obs, late) ==
    CASE r.phase = "deleting" -> IF obs = "absent" THEN "unfinalize" ELSE "dget"
      [] r.phase # "deleting" /\ ~r.fin -> "finalizer"
      [] OTHER -> AfterFinalizer(obs, late)

Report(m, r, obs, late) ==
    LET p == AfterObserve(r, obs, late) IN
    wk' = [wk EXCEPT ![m] =
             IF p = "idle" THEN Idle
             ELSE [@ EXCEPT !.pc = p, !.mr = r, !.obs = obs, !.late = late]]

(***************************************************************************)
(* Observe found the object at a: late-initialise the copy, record a       *)
(* reference that was lost or rotated, and never call an adopted object up *)
(* to date, so that Update stamps it.                                      *)
(***************************************************************************)
\* Mutant: a recovered reference is not reported as late-initialised.
Observed_notPersisted(m, a, outcome) ==
    LET r0 == wk[m].mr
        v  == lateInitialize(r0.val, data[a])
        r  == [r0 EXCEPT !.val = v, !.ext = a]
    IN  Report(m, r, IF isUpToDate(r, a) /\ outcome # "Adopted" THEN "synced"
                     ELSE "drift", v # r0.val)

Observed(m, a, outcome) ==
    LET r0   == wk[m].mr
        moved == outcome \in {"Rotated", "FoundByUID"}
        v    == lateInitialize(r0.val, data[a])
        r    == [r0 EXCEPT !.val = v, !.ext = IF moved THEN a ELSE @]
        sync == isUpToDate(r, a) /\ outcome # "Adopted"
    IN  Report(m, r, IF sync THEN "synced" ELSE "drift", moved \/ v # r0.val)

\* Mutant: a 404 on the stored reference means that the object is gone.
ObserveGet_bare404(m) ==
    /\ At(m, "get")
    /\ LET ref == wk[m].mr.ext
           outcome == resolveByRef(owner, ref, m)
       IN  CASE outcome = "Search" -> Report(m, wk[m].mr, "absent", FALSE)
             [] outcome = "HandleReuseError" -> Return(m)
             [] OTHER -> Observed(m, ref, outcome)
    /\ UNCHANGED <<owner, data, cr, cache, left>>

\* Observe's GET of the stored reference.
ObserveGet(m) ==
    /\ At(m, "get")
    /\ LET ref == wk[m].mr.ext
           outcome == resolveByRef(owner, ref, m)
       IN  CASE outcome = "Search" -> Continue(m, "search", wk[m].mr)
             [] outcome = "HandleReuseError" -> Return(m)
             [] OTHER -> Observed(m, ref, outcome)
    /\ UNCHANGED <<owner, data, cr, cache, left>>

\* Observe's search by identity attribute.
ObserveSearch(m) ==
    /\ At(m, "search")
    /\ LET outcome == resolveBySearch(owner, wk[m].mr.ext, m)
       IN  CASE outcome = "NotFound" -> Report(m, wk[m].mr, "absent", FALSE)
             [] outcome = "AmbiguousMatchError" -> Return(m)
             [] OTHER -> \E a \in searchByUID(owner, m) : Observed(m, a, outcome)
    /\ UNCHANGED <<owner, data, cr, cache, left>>

-----------------------------------------------------------------------------
(***************************************************************************)
(* Whole-object writes of the runtime: all of the copy is written, and     *)
(* nothing is when the copy is stale (a conflict ends the reconcile).      *)
(***************************************************************************)
Persist(m, r, p) ==
    IF wk[m].fresh
    THEN /\ Write(m, r)
         /\ IF p = "idle" THEN Return(m) ELSE Continue(m, p, r)
    ELSE UNCHANGED cr /\ Return(m)

AddFinalizer(m) ==
    /\ At(m, "finalizer")
    /\ Persist(m, [wk[m].mr EXCEPT !.fin = TRUE],
               AfterFinalizer(wk[m].obs, wk[m].late))
    /\ UNCHANGED <<owner, data, cache, left>>

\* The external-create-pending annotation, written before Create is called.
CreatePending(m) ==
    /\ At(m, "pending")
    /\ Persist(m, [wk[m].mr EXCEPT !.begun = TRUE], "post")
    /\ UNCHANGED <<owner, data, cache, left>>

LateInit(m) ==
    /\ At(m, "late")
    /\ Persist(m, wk[m].mr, IF wk[m].obs = "drift" THEN "put" ELSE "idle")
    /\ UNCHANGED <<owner, data, cache, left>>

RemoveFinalizer(m) ==
    /\ At(m, "unfinalize")
    /\ Persist(m, GoneCR, "idle")
    /\ UNCHANGED <<owner, data, cache, left>>

(***************************************************************************)
(* Create: one POST that creates the object with its stamp; the Grid       *)
(* refuses an identity that is taken.  The outcome is recorded by a later  *)
(* write of the annotations alone, retried on conflict: the new reference  *)
(* if there is one, and that the creation has succeeded or failed.  It has *)
(* failed, for all the runtime knows, when only the reply was lost.        *)
(***************************************************************************)
Created(m) ==
    LET r == wk[m].mr IN
    /\ owner[r.addr] = Absent
    /\ owner' = [owner EXCEPT ![r.addr] = m]
    /\ data'  = [data EXCEPT ![r.addr] = strOrEmpty(r.val)]

Create(m) ==
    /\ At(m, "post")
    /\ Created(m)
    /\ Continue(m, "name", [wk[m].mr EXCEPT !.ext = wk[m].mr.addr])
    /\ UNCHANGED <<cr, cache, left>>

CreateFails(m) ==
    /\ At(m, "post")
    /\ \/ owner[wk[m].mr.addr] # Absent /\ UNCHANGED <<owner, data, left>>
       \/ Spend("abort") /\ (Created(m) \/ UNCHANGED <<owner, data>>)
    /\ Continue(m, "name", wk[m].mr)
    /\ UNCHANGED <<cr, cache>>

WriteExternalName(m, begun) ==
    /\ IF Exists(m) THEN Write(m, [cr[m] EXCEPT !.ext = wk[m].mr.ext, !.begun = begun])
                    ELSE UNCHANGED cr
    /\ Return(m)
    /\ UNCHANGED <<owner, data, cache, left>>

UpdateCriticalAnnotations(m) == At(m, "name") /\ WriteExternalName(m, FALSE)

(***************************************************************************)
(* Update: one PUT on the reference Observe saw.  It carries every field   *)
(* and the stamp, and the Grid does not compare the stamp that was there.  *)
(* An object whose identity fields changed moves, and Update then patches  *)
(* the annotation (externalname.Refresh).                                  *)
(***************************************************************************)
Update(m) ==
    LET r == wk[m].mr IN
    /\ At(m, "put")
    /\ IF \/ isNotFound(owner, r.ext)
          \/ r.addr # r.ext /\ owner[r.addr] # Absent
       THEN UNCHANGED <<owner, data>> /\ Return(m)
       ELSE /\ owner' = [owner EXCEPT ![r.ext] = Absent, ![r.addr] = m]
            /\ data'  = [data EXCEPT ![r.ext] = Empty,
                                     ![r.addr] = strOrEmpty(r.val)]
            /\ IF r.addr = r.ext THEN Return(m)
               ELSE Continue(m, "refresh", [r EXCEPT !.ext = r.addr])
    /\ UNCHANGED <<cr, cache, left>>

Refresh(m) == At(m, "refresh") /\ WriteExternalName(m, cr[m].begun)

(***************************************************************************)
(* Delete resolves identity again, and is stricter than Observe: an object *)
(* without a stamp is not destroyed.  The DELETE itself names a reference, *)
(* which mr.ext holds from here on.                                        *)
(***************************************************************************)
\* Mutant: Delete is no stricter than Observe.
DeleteGet_adopts(m) ==
    /\ At(m, "dget")
    /\ LET outcome == resolveByRef(owner, wk[m].mr.ext, m)
       IN  CASE outcome = "Search" -> Continue(m, "dsearch", wk[m].mr)
             [] outcome \in {"Resolved", "Adopted"} -> Continue(m, "delete", wk[m].mr)
             [] OTHER -> Return(m)
    /\ UNCHANGED <<owner, data, cr, cache, left>>

DeleteGet(m) ==
    /\ At(m, "dget")
    /\ LET outcome == resolveByRef(owner, wk[m].mr.ext, m)
       IN  CASE outcome = "Search"   -> Continue(m, "dsearch", wk[m].mr)
             [] outcome = "Resolved" -> Continue(m, "delete", wk[m].mr)
             [] OTHER                -> Return(m)
    /\ UNCHANGED <<owner, data, cr, cache, left>>

DeleteSearch(m) ==
    /\ At(m, "dsearch")
    /\ LET outcome == resolveBySearch(owner, wk[m].mr.ext, m)
       IN  IF outcome \in {"Rotated", "FoundByUID"}
           THEN \E a \in searchByUID(owner, m) :
                  Continue(m, "delete", [wk[m].mr EXCEPT !.ext = a])
           ELSE Return(m)
    /\ UNCHANGED <<owner, data, cr, cache, left>>

\* A 404 counts as deleted; otherwise the object at the reference goes.
Delete(m) ==
    LET ref == wk[m].mr.ext IN
    /\ At(m, "delete")
    /\ owner' = [owner EXCEPT ![ref] = Absent]
    /\ data'  = [data EXCEPT ![ref] = Empty]
    /\ Return(m)
    /\ UNCHANGED <<cr, cache, left>>

(***************************************************************************)
(* A reconcile is cut short before its next call: the process crashes, a   *)
(* WAPI or API server call fails, or the reply to the last one is lost.    *)
(* Nothing survives of it but what it wrote.  What fails within Create is  *)
(* CreateFails, unless the process dies.                                    *)
(***************************************************************************)
Abort(m) ==
    /\ wk[m] # Idle
    /\ Return(m)
    /\ Spend("abort")
    /\ UNCHANGED <<owner, data, cr, cache>>

-----------------------------------------------------------------------------
User(m) == NewRecord(m) \/ EditSpec(m) \/ DeleteCR(m) \/ Unblock(m)

Reconcile(m) ==
    \/ Begin(m) \/ ObserveGet(m) \/ ObserveSearch(m)
    \/ AddFinalizer(m) \/ CreatePending(m) \/ LateInit(m) \/ RemoveFinalizer(m)
    \/ Create(m) \/ CreateFails(m) \/ UpdateCriticalAnnotations(m)
    \/ Update(m) \/ Refresh(m)
    \/ DeleteGet(m) \/ DeleteSearch(m) \/ Delete(m)

Next ==
    \/ \E m \in UID : User(m) \/ Sync(m) \/ Reconcile(m) \/ Abort(m)
    \/ Admin

Spec == Init /\ [][Next]_vars

-----------------------------------------------------------------------------
(***************************************************************************)
(* Safety.                                                                 *)
(***************************************************************************)
Owned(m) == searchByUID(owner, m)

OwnsOne(m) == \A a, b \in Owned(m) : a = b

\* One managed resource never owns two Grid objects: no interleaving of
\* crashes, stale reads and renames makes Create or Update stamp a second
\* one, which would be an AmbiguousMatchError for ever.
UniqueOwnership == \A m \in UID : OwnsOne(m)

\* A managed resource that is gone leaves nothing stamped behind: the
\* finalizer is on before the first POST and comes off after the search.
NoOrphan == \A m \in UID : cr[m].phase \in {"none", "gone"} => Owned(m) = {}

\* No step of a reconcile steals, moves or destroys the object of another
\* managed resource, although PUT and DELETE act on whatever is at a reference
\* by then: what resolveByRef verified is still so when they are issued.
OwnerOnly ==
    [][\A m, n \in UID : m # n /\ wk'[n] # wk[n] => Owned(m)' = Owned(m)]_vars

-----------------------------------------------------------------------------
(***************************************************************************)
(* Why the safety properties hold: the inductive invariants of             *)
(* ARecord_proofs, by what they relate.                                    *)
(***************************************************************************)
Busy(m)   == wk[m].pc # "idle"
Cached(m) == cache[m].phase \in {"live", "deleting"}

\* A reference that answers with an object nobody has stamped.
Unstamped(r) == r \in Addr /\ owner[r] = NoStamp

\* The next call fits the copy the reconcile works on.
StageFits(m) ==
    LET w == wk[m] IN
    /\ w.pc = "get" => w.mr.ext \in Addr
    /\ w.pc = "finalizer" => w.mr.phase = "live" /\ ~w.mr.fin
    /\ w.pc \in {"pending", "post", "name", "late", "put", "refresh"}
         => w.mr.phase = "live" /\ w.mr.fin
    /\ w.pc \in {"dget", "dsearch", "delete", "unfinalize"}
         => w.mr.phase = "deleting"

\* API server, informer and reconcile are never ahead of one another.
CopiesLag(m) ==
    /\ cr[m].phase = "none" => cache[m].phase = "none" /\ ~Busy(m)
    /\ cache[m].phase = "deleting" => cr[m].phase \in {"deleting", "gone"}
    /\ cache[m].phase = "gone" => cr[m].phase = "gone"
    /\ Busy(m) /\ wk[m].mr.phase = "deleting"
         => cache[m].phase \in {"deleting", "gone"}
    /\ Busy(m) /\ wk[m].fresh
         => Exists(m) /\ cr[m].phase = wk[m].mr.phase /\ cr[m].fin = wk[m].mr.fin

\* The finalizer, once seen on a resource that is not deleted, is there.
FinalizerHolds(m) ==
    /\ cr[m].phase = "deleting" => cr[m].fin
    /\ Cached(m) /\ cache[m].fin /\ Exists(m) => cr[m].fin
    /\ Busy(m) /\ wk[m].mr.fin /\ Exists(m) => cr[m].fin
    /\ cache[m].phase = "live" /\ cache[m].fin => Exists(m)
    /\ Busy(m) /\ wk[m].mr.phase = "live" /\ wk[m].mr.fin => Exists(m)

\* Nothing is stamped before the finalizer is on or after it is off.
FinalizerGuards(m) ==
    /\ wk[m].pc = "unfinalize" => Owned(m) = {}
    /\ ~(Exists(m) /\ cr[m].fin) => Owned(m) = {}

Guarded(m) == /\ StageFits(m) /\ CopiesLag(m)
              /\ FinalizerHolds(m) /\ FinalizerGuards(m)

\* What makes NoOrphan inductive, whatever administrators do.
OrphanInv == TypeOK /\ \A m \in UID : Guarded(m)

\* A resource that refers to an unstamped object owns none, and a reference
\* that was ever replaced is not one to an unstamped object.
AdoptsFirst(m) ==
    /\ Cached(m) /\ Exists(m) /\ cache[m].ext # cr[m].ext
         => ~Unstamped(cache[m].ext) /\ ~Unstamped(cr[m].ext)
    /\ Busy(m) /\ Exists(m) /\ wk[m].mr.ext # cr[m].ext
         => ~Unstamped(wk[m].mr.ext) /\ ~Unstamped(cr[m].ext)
    /\ Exists(m) /\ Unstamped(cr[m].ext) => Owned(m) = {}

\* What Observe found out about ownership is still so when it is acted upon.
ObservationHolds(m) ==
    LET w == wk[m] IN
    /\ w.pc \in {"pending", "post"} => w.obs = "absent"
    /\ w.pc \in {"late", "put"} => w.obs \in {"synced", "drift"}
    /\ w.pc = "finalizer" => w.obs # "none"
    /\ w.pc = "search" => ~Unstamped(w.mr.ext)
    /\ w.pc \in {"finalizer", "pending", "post"} /\ w.obs = "absent"
         => Owned(m) = {} /\ ~Unstamped(w.mr.ext)
    /\ w.pc \in {"finalizer", "late", "put"} /\ w.obs # "absent"
         => w.mr.ext \in Addr /\ Owned(m) \subseteq {w.mr.ext}
    /\ w.pc \in {"name", "refresh"} => ~Unstamped(w.mr.ext)
    /\ w.pc \in {"post", "name", "refresh"} => ~Unstamped(cr[m].ext)

\* What makes UniqueOwnership inductive when administrators only delete.
Owning(m) == OwnsOne(m) /\ AdoptsFirst(m) /\ ObservationHolds(m)

OwnershipInv == OrphanInv /\ \A m \in UID : Owning(m)

\* The object at a is m's, or one that only m may adopt.
Mine(m, a) == owner[a] = m \/ (owner[a] = NoStamp /\ a \in Imports[m])

\* Only a reference the user set leads to an unstamped object, and a reconcile
\* about to change or destroy an object is still entitled to it.
Entitled(m) ==
    LET w == wk[m] IN
    /\ Exists(m) /\ Unstamped(cr[m].ext) => cr[m].ext \in Imports[m]
    /\ Cached(m) /\ Unstamped(cache[m].ext) => cache[m].ext \in Imports[m]
    /\ Busy(m) /\ Unstamped(w.mr.ext) => w.mr.ext \in Imports[m]
    /\ w.pc \in {"finalizer", "late", "put"} /\ w.obs # "absent" => Mine(m, w.mr.ext)
    /\ w.pc = "dget" => w.mr.ext \in Addr
    /\ w.pc = "delete" => w.mr.ext \in Addr /\ owner[w.mr.ext] = m

\* What OwnerOnly follows from when administrators do nothing and no two
\* managed resources import the same object.
EntitledInv == OwnershipInv /\ \A m \in UID : Entitled(m)

-----------------------------------------------------------------------------
(***************************************************************************)
(* The detailed reconciles implement Ownership: a managed resource is a    *)
(* tenant while its finalizer is on, and holds what has its stamp.         *)
(***************************************************************************)
Tenants == {m \in UID : Exists(m) /\ cr[m].fin}

Tenancy == INSTANCE Ownership WITH tenants <- Tenants, held <- owner

\* Every step that changes the Grid or a finalizer is one that Ownership allows: stamps
\* are set on a new object, an own one or one to be adopted, under a finalizer and by
\* who has none; an object without a stamp is not destroyed; a finalizer comes off
\* when nothing is held.
Implements == Tenancy!Spec

(***************************************************************************)
(* Every managed resource is reconciled again and again (poll interval,    *)
(* requeue after an error) and the informer catches up.                    *)
(***************************************************************************)
Fairness == \A m \in UID : WF_vars(Sync(m)) /\ WF_vars(Reconcile(m))

FairSpec == Spec /\ Fairness

(***************************************************************************)
(* Liveness.                                                               *)
(***************************************************************************)
\* The stored reference answers with an object that is not m's.
Misdirected(m) == Exists(m) /\ cr[m].ext \in Addr
                            /\ owner[cr[m].ext] \notin {m, Absent}

\* The runtime refuses to go on until Unblock: something was cut short, and nobody knows
\* what came of a creation.
Undecided(m) == Exists(m) /\ cr[m].begun /\ left.abort < MaxAborts

Synced(m) == /\ cr[m].phase = "live"
             /\ cr[m].ext = cr[m].addr
             /\ owner[cr[m].addr] = m
             /\ data[cr[m].addr] = strOrEmpty(cr[m].val)

\* Once users and failures stop, the Grid comes to hold what the spec says,
\* stamped, under the reference the annotation records, and stays so, unless the
\* identity the spec asks for, or the stored reference, is someone else's, an
\* administrator has brought it about that the resource owns two objects, or a creation
\* was cut short before its outcome was recorded, and nobody has lifted that.
Converges ==
    \A m \in UID :
        \/ <>[]Synced(m)
        \/ <>[](cr[m].phase # "live")
        \/ []<>Misdirected(m)
        \/ []<>~OwnsOne(m)
        \/ <>[]Undecided(m)
        \/ []<>(cr[m].phase = "live" /\ owner[cr[m].addr] \notin {m, Absent})

\* A deleted resource's object is destroyed and its finalizer removed, unless
\* the stored reference keeps answering with someone else's object, an administrator
\* has brought it about that the resource owns two, or a creation was cut short and
\* nobody has lifted that: then the deletion waits as well.
DeletionCompletes ==
    \A m \in UID : \/ []<>Misdirected(m)
                   \/ []<>~OwnsOne(m)
                   \/ <>[]Undecided(m)
                   \/ cr[m].phase = "deleting" ~> cr[m].phase = "gone"

(***************************************************************************)
(* What the text of HandleReuseError tells the operator.  It does not hold.*)
(***************************************************************************)
\* "the operator's options are to delete this managed resource": deleting a
\* managed resource always ends with it gone.
DeletedGoes == \A m \in UID : cr[m].phase = "deleting" ~> cr[m].phase = "gone"
=============================================================================
