----------------------- MODULE ARecordOwnership_proofs ----------------------
(***************************************************************************)
(* UniqueOwnership, when administrators do nothing but delete objects;     *)
(* OwnerOnly and Implements, when they do nothing at all.                  *)
(*                                                                         *)
(* Create stamps an object when Observe found none, and Update stamps the  *)
(* object Observe found; neither looks again.  The invariant carries what  *)
(* Observe found to that moment: nobody but the reconcile stamps for its   *)
(* managed resource, and a reference to an unstamped object is one that    *)
(* the annotation has held since before anything was stamped.              *)
(***************************************************************************)
EXTENDS ARecord_proofs

OnlyDeletes == AdminOps \subseteq {"delete"}

\* No step but an administrator's leaves an unstamped object where none was.
NoNewUnstamped == \A a \in Addr : owner'[a] = NoStamp => owner[a] = NoStamp

\* A step of another resource that neither stamps for n nor strips a stamp.
LEMMA OwningFrame ==
    ASSUME NEW n \in UID, Owning(n), Untouched(n), NoNewUnstamped,
           Owned(n)' \subseteq Owned(n)
    PROVE  Owning(n)'
  BY DEF Owning, Untouched, NoNewUnstamped, OwnsOne, AdoptsFirst, ObservationHolds,
         Busy, Exists, Cached, Unstamped

\* So a step of m need only be shown to keep m owning one object.
LEMMA OwningLift ==
    ASSUME OwnershipInv, OrphanInv', NEW m \in UID, Owning(m)', NoNewUnstamped,
           \A n \in UID \ {m} : Untouched(n),
           \A n \in UID \ {m} : Owned(n)' \subseteq Owned(n)
    PROVE  OwnershipInv'
<1>1. ASSUME NEW n \in UID PROVE Owning(n)'
  <2>1. CASE n = m
    BY <2>1
  <2>2. CASE n # m
    BY <2>2, OwningFrame DEF OwnershipInv
  <2> QED BY <2>1, <2>2
<1> QED
  BY <1>1 DEF OwnershipInv

\* Steps that leave the Grid alone.
LEMMA OwningQuiet ==
    ASSUME OwnershipInv, OrphanInv', NEW m \in UID, Owning(m)', owner' = owner,
           \A n \in UID \ {m} : Untouched(n)
    PROVE  OwnershipInv'
  BY OwningLift DEF NoNewUnstamped, Owned

\* A new managed resource owns nothing, so it may import what it likes.
LEMMA OwningNewRecord ==
    ASSUME OwnershipInv, OrphanInv', NEW m \in UID, NewRecord(m) PROVE OwnershipInv'
<1>1. TypeOK /\ Guarded(m) /\ Owning(m) /\ cr[m].phase = "none"
  BY DEF OwnershipInv, OrphanInv, NewRecord, NoCR
<1>2. UNCHANGED <<owner, cache, wk>> /\ \A n \in UID \ {m} : Untouched(n)
  BY <1>1 DEF NewRecord, Write, TypeOK, Untouched
<1>3. ~Busy(m) /\ ~Cached(m) /\ Owned(m) = {}
  BY <1>1 DEF Guarded, CopiesLag, FinalizerGuards, Exists, Cached
<1>4. Owning(m)'
  BY <1>1, <1>2, <1>3
     DEF Owning, OwnsOne, AdoptsFirst, ObservationHolds, Busy, Exists, Cached,
         Unstamped, Owned, searchByUID
<1> QED
  BY <1>2, <1>4, OwningQuiet

\* Editing a spec does not touch the reference.
LEMMA OwningEditSpec ==
    ASSUME OwnershipInv, OrphanInv', NEW m \in UID, EditSpec(m) PROVE OwnershipInv'
<1>1. TypeOK /\ Owning(m) /\ cr[m] \in LiveCR
  BY ExistsLive DEF OwnershipInv, OrphanInv, EditSpec
<1>2. /\ wk'[m].pc = wk[m].pc
      /\ Busy(m) => wk'[m].mr = wk[m].mr /\ wk'[m].obs = wk[m].obs
      /\ Others(m)
  BY <1>1, OutdateMove DEF EditSpec
<1>3. /\ cr'[m].phase = cr[m].phase /\ cr'[m].ext = cr[m].ext
      /\ \A n \in UID \ {m} : cr'[n] = cr[n]
  <2>1. PICK a \in Addr, v \in SpecVal :
          cr' = [cr EXCEPT ![m] = [cr[m] EXCEPT !.addr = a, !.val = v]]
    BY DEF EditSpec, Write
  <2> DEFINE r == [cr[m] EXCEPT !.addr = a, !.val = v]
  <2>2. r.phase = cr[m].phase /\ r.ext = cr[m].ext
    BY <1>1 DEF LiveCR
  <2> HIDE DEF r
  <2>3. cr' = [cr EXCEPT ![m] = r]
    BY <2>1 DEF r
  <2> QED
    BY <1>1, <2>2, <2>3 DEF TypeOK
<1>4. UNCHANGED <<owner, cache>> /\ \A n \in UID \ {m} : Untouched(n)
  BY <1>2, <1>3 DEF EditSpec, Untouched, Others
<1>5. Owning(m)'
  BY <1>1, <1>2, <1>3, <1>4
     DEF Owning, OwnsOne, AdoptsFirst, ObservationHolds, Busy, Exists, Cached,
         Unstamped, Owned, searchByUID
<1> QED
  BY <1>4, <1>5, OwningQuiet

\* Nor does letting a refused resource go on.
LEMMA OwningUnblock ==
    ASSUME OwnershipInv, OrphanInv', NEW m \in UID, Unblock(m) PROVE OwnershipInv'
<1>1. TypeOK /\ Owning(m) /\ cr[m] \in LiveCR
  BY ExistsLive DEF OwnershipInv, OrphanInv, Unblock, Exists
<1>2. /\ wk'[m].pc = wk[m].pc
      /\ Busy(m) => wk'[m].mr = wk[m].mr /\ wk'[m].obs = wk[m].obs
      /\ Others(m)
  BY <1>1, OutdateMove DEF Unblock
<1> DEFINE r == [cr[m] EXCEPT !.begun = FALSE]
<1>3. r.phase = cr[m].phase /\ r.ext = cr[m].ext /\ cr' = [cr EXCEPT ![m] = r]
  BY <1>1 DEF Unblock, Write, LiveCR
<1> HIDE DEF r
<1>4. cr'[m] = r /\ \A n \in UID \ {m} : cr'[n] = cr[n]
  BY <1>1, <1>3 DEF TypeOK
<1>5. UNCHANGED <<owner, cache>> /\ \A n \in UID \ {m} : Untouched(n)
  BY <1>2, <1>4 DEF Unblock, Untouched, Others
<1>6. Owning(m)'
  BY <1>1, <1>2, <1>3, <1>4, <1>5
     DEF Owning, OwnsOne, AdoptsFirst, ObservationHolds, Busy, Exists, Cached,
         Unstamped, Owned, searchByUID
<1> QED
  BY <1>5, <1>6, OwningQuiet

\* Deleting a managed resource does not touch the reference.
LEMMA OwningDeleteCR ==
    ASSUME OwnershipInv, OrphanInv', NEW m \in UID, DeleteCR(m) PROVE OwnershipInv'
<1>1. TypeOK /\ Guarded(m) /\ Owning(m) /\ cr[m] \in LiveCR
  BY ExistsLive DEF OwnershipInv, OrphanInv, DeleteCR
<1>2. /\ wk'[m].pc = wk[m].pc
      /\ Busy(m) => wk'[m].mr = wk[m].mr /\ wk'[m].obs = wk[m].obs
      /\ Others(m)
  BY <1>1, OutdateMove DEF DeleteCR
<1> DEFINE r == IF cr[m].fin THEN [cr[m] EXCEPT !.phase = "deleting"] ELSE GoneCR
<1>3. /\ cr[m].fin => r.ext = cr[m].ext
      /\ ~cr[m].fin => r.phase = "gone"
      /\ cr' = [cr EXCEPT ![m] = r]
  BY <1>1 DEF DeleteCR, Write, LiveCR, GoneCR
<1> HIDE DEF r
<1>4. cr'[m] = r /\ \A n \in UID \ {m} : cr'[n] = cr[n]
  BY <1>1, <1>3 DEF TypeOK
<1>5. UNCHANGED <<owner, cache>> /\ \A n \in UID \ {m} : Untouched(n)
  BY <1>2, <1>4 DEF DeleteCR, Untouched, Others
\* Without a finalizer no reconcile has come as far as to rely on cr.ext.
<1>6. ~cr[m].fin => wk[m].pc \notin {"post", "name", "refresh"}
  BY <1>1 DEF Guarded, StageFits, FinalizerHolds, Busy, Exists, DeleteCR
<1>7. cr[m].fin \in BOOLEAN /\ cr[m].phase = "live"
  BY <1>1, LiveUpdate DEF DeleteCR
<1>8. Owning(m)'
  BY <1>1, <1>2, <1>3, <1>4, <1>5, <1>6, <1>7
     DEF Owning, OwnsOne, AdoptsFirst, ObservationHolds, Busy, Exists, Cached,
         Unstamped, Owned, searchByUID
<1> QED
  BY <1>5, <1>8, OwningQuiet

\* The informer catches up: its reference is the API server's.
LEMMA OwningSync ==
    ASSUME OwnershipInv, OrphanInv', NEW m \in UID, Sync(m) PROVE OwnershipInv'
<1>1. TypeOK /\ Owning(m)
  BY DEF OwnershipInv, OrphanInv
<1>2. /\ UNCHANGED <<owner, cr, wk>> /\ cache'[m] = cr[m]
      /\ \A n \in UID \ {m} : Untouched(n)
  BY <1>1 DEF Sync, TypeOK, Untouched
<1>3. Owning(m)'
  BY <1>1, <1>2
     DEF Owning, OwnsOne, AdoptsFirst, ObservationHolds, Busy, Exists, Cached,
         Unstamped, Owned, searchByUID
<1> QED
  BY <1>2, <1>3, OwningQuiet

\* A reconcile starts with the informer's reference, which may be an old one.
LEMMA OwningBegin ==
    ASSUME OwnershipInv, OrphanInv', NEW m \in UID, Begin(m) PROVE OwnershipInv'
<1>1. TypeOK /\ Owning(m) /\ cache[m] \in LiveCR
  BY ExistsLive DEF OwnershipInv, OrphanInv, Begin
<1>2. /\ wk'[m].mr = cache[m] /\ wk'[m].obs = "none"
      /\ wk'[m].pc = observeRefFor(cache[m].ext)
      /\ UNCHANGED <<owner, cr, cache>> /\ \A n \in UID \ {m} : Untouched(n)
  BY <1>1 DEF Begin, TypeOK, Untouched
<1>3. /\ wk'[m].pc \in {"get", "search"}
      /\ wk'[m].pc = "search" => cache[m].ext = NoRef
      /\ Cached(m)
  BY <1>2 DEF observeRefFor, Begin, Cached
<1>4. Owning(m)'
  BY <1>1, <1>2, <1>3, IdentityConstants
     DEF Owning, OwnsOne, AdoptsFirst, ObservationHolds, Busy, Exists, Cached,
         Unstamped, Owned, searchByUID
<1> QED
  BY <1>2, <1>4, OwningQuiet

\* A reconcile that ends.
LEMMA OwningReturn ==
    ASSUME OwnershipInv, OrphanInv', NEW m \in UID, Return(m), UNCHANGED <<cr, cache>>,
           NoNewUnstamped, \A n \in UID : Owned(n)' \subseteq Owned(n)
    PROVE  OwnershipInv'
<1>1. TypeOK /\ Owning(m)
  BY DEF OwnershipInv, OrphanInv
<1>2. wk'[m].pc = "idle" /\ \A n \in UID \ {m} : Untouched(n)
  BY <1>1, ReturnMove DEF Idle, Others, Untouched
<1>3. Owning(m)'
  BY <1>1, <1>2
     DEF Owning, NoNewUnstamped, OwnsOne, AdoptsFirst, ObservationHolds, Busy, Exists,
         Cached, Unstamped
<1> QED
  BY <1>2, <1>3, OwningLift

\* Observe hands over what it found: no object of its own, or the one at r.ext.
LEMMA OwningReport ==
    ASSUME OwnershipInv, OrphanInv', NEW m \in UID, Busy(m), NEW r \in LiveCR,
           NEW o \in {"absent", "synced", "drift"}, NEW l \in BOOLEAN,
           UNCHANGED <<owner, cr, cache>>, Others(m),
           wk'[m].pc = AfterObserve(r, o, l),
           wk'[m].pc # "idle" => wk'[m].mr = r /\ wk'[m].obs = o,
           Exists(m) /\ r.ext # cr[m].ext
             => ~Unstamped(r.ext) /\ ~Unstamped(cr[m].ext),
           o = "absent" => Owned(m) = {} /\ ~Unstamped(r.ext),
           o # "absent" => r.ext \in Addr /\ Owned(m) \subseteq {r.ext}
    PROVE  OwnershipInv'
<1>1. TypeOK /\ Owning(m) /\ \A n \in UID \ {m} : Untouched(n)
  BY DEF OwnershipInv, OrphanInv, Untouched, Others
<1>2. /\ wk'[m].pc \in {"unfinalize", "dget", "finalizer", "pending", "late", "put", "idle"}
      /\ wk'[m].pc = "pending" => o = "absent"
      /\ wk'[m].pc \in {"late", "put"} => o # "absent"
  BY LiveUpdate DEF AfterObserve, AfterFinalizer
<1>3. Owning(m)'
  BY <1>1, <1>2
     DEF Owning, OwnsOne, AdoptsFirst, ObservationHolds, Busy, Exists, Cached,
         Unstamped, Owned, searchByUID
<1> QED
  BY <1>1, <1>3, OwningQuiet

\* A reference that answers settles who the object is; one that does not is
\* not a reference to an unstamped object.
LEMMA OwningObserveGet ==
    ASSUME OwnershipInv, OrphanInv', NEW m \in UID, ObserveGet(m) PROVE OwnershipInv'
<1> DEFINE ref == wk[m].mr.ext
           o == resolveByRef(owner, ref, m)
<1>1. /\ TypeOK /\ Guarded(m) /\ Owning(m) /\ wk[m] \in Working /\ wk[m].mr \in LiveCR
      /\ ref \in Addr /\ Busy(m)
  BY WorkingAt DEF OwnershipInv, OrphanInv, ObserveGet, At, Guarded, StageFits, Busy
<1>2. UNCHANGED <<owner, cr, cache>>
  BY DEF ObserveGet
<1>3. CASE o = "Search"
  <2>1. Continue(m, "search", wk[m].mr) /\ owner[ref] = Absent
    BY <1>3 DEF ObserveGet, resolveByRef, isNotFound
  <2>2. /\ Others(m) /\ wk'[m].pc = "search" /\ wk'[m].mr = wk[m].mr
        /\ wk'[m].obs = wk[m].obs
    BY <1>1, <2>1, ContinueMove DEF PCs
  <2>3. \A n \in UID \ {m} : Untouched(n)
    BY <1>2, <2>2 DEF Untouched, Others
  <2>4. Owning(m)'
    BY <1>1, <1>2, <2>1, <2>2, IdentityConstants
       DEF Owning, OwnsOne, AdoptsFirst, ObservationHolds, Busy, Exists, Cached,
           Unstamped, Owned, searchByUID
  <2> QED BY <1>2, <2>3, <2>4, OwningQuiet
<1>4. CASE o = "HandleReuseError"
  <2>1. Return(m)
    BY <1>4 DEF ObserveGet
  <2> QED BY <1>2, <2>1, OwningReturn DEF NoNewUnstamped, Owned
<1>5. CASE o \notin {"Search", "HandleReuseError"}
  <2>1. Observed(m, ref, o) /\ o \in Outcome
    BY <1>5 DEF ObserveGet, resolveByRef, Outcome
  <2>2. PICK r \in LiveCR, b \in {"synced", "drift"}, l \in BOOLEAN :
             /\ wk'[m].pc = AfterObserve(r, b, l)
             /\ wk'[m].pc # "idle" => wk'[m].mr = r /\ wk'[m].obs = b
             /\ Others(m)
             /\ r.ext = ref
    BY <1>1, <2>1, ObservedMove
  <2>3. owner[ref] \in {m, NoStamp}
    BY <1>5 DEF resolveByRef
  <2>4. Owned(m) \subseteq {ref}
    <3>1. CASE owner[ref] = m
      BY <1>1, <3>1 DEF Owning, OwnsOne, Owned, searchByUID
    <3>2. CASE owner[ref] = NoStamp
      BY <1>1, <3>2
         DEF Owning, AdoptsFirst, Unstamped, Guarded, FinalizerGuards, Exists
    <3> QED BY <2>3, <3>1, <3>2
  <2>5. Exists(m) /\ ref # cr[m].ext => ~Unstamped(ref) /\ ~Unstamped(cr[m].ext)
    BY <1>1 DEF Owning, AdoptsFirst
  <2> HIDE DEF ref
  <2> QED BY <1>1, <1>2, <2>2, <2>4, <2>5, OwningReport
<1> QED BY <1>3, <1>4, <1>5

\* A search by uid that finds one object makes it the reference; one that finds
\* none proves that m owns nothing.
LEMMA OwningObserveSearch ==
    ASSUME OwnershipInv, OrphanInv', NEW m \in UID, ObserveSearch(m) PROVE OwnershipInv'
<1> DEFINE o == resolveBySearch(owner, wk[m].mr.ext, m)
<1>1. /\ TypeOK /\ Guarded(m) /\ Owning(m) /\ wk[m] \in Working /\ wk[m].mr \in LiveCR
      /\ wk[m].pc = "search" /\ Busy(m)
  BY WorkingAt DEF OwnershipInv, OrphanInv, ObserveSearch, At, Busy
<1>2. UNCHANGED <<owner, cr, cache>>
  BY DEF ObserveSearch
<1>3. ~Unstamped(wk[m].mr.ext)
  BY <1>1 DEF Owning, ObservationHolds
<1>4. CASE o = "NotFound"
  <2>1. Report(m, wk[m].mr, "absent", FALSE) /\ Owned(m) = {}
    BY <1>4 DEF ObserveSearch, resolveBySearch, Owned
  <2>2. /\ Others(m)
        /\ wk'[m].pc = AfterObserve(wk[m].mr, "absent", FALSE)
        /\ wk'[m].pc # "idle" => wk'[m].mr = wk[m].mr /\ wk'[m].obs = "absent"
    BY <1>1, <2>1, ReportMove
  <2>3. Exists(m) /\ wk[m].mr.ext # cr[m].ext
          => ~Unstamped(wk[m].mr.ext) /\ ~Unstamped(cr[m].ext)
    BY <1>1 DEF Owning, AdoptsFirst
  <2> QED BY <1>1, <1>2, <1>3, <2>1, <2>2, <2>3, OwningReport
<1>5. CASE o = "AmbiguousMatchError"
  <2>1. Return(m)
    BY <1>5 DEF ObserveSearch
  <2> QED BY <1>2, <2>1, OwningReturn DEF NoNewUnstamped, Owned
<1>6. CASE o \notin {"NotFound", "AmbiguousMatchError"}
  <2>1. PICK a \in searchByUID(owner, m) : Observed(m, a, o)
    BY <1>6 DEF ObserveSearch
  <2>2. a \in Addr /\ o \in Outcome /\ o \in {"Rotated", "FoundByUID"}
    BY <1>6 DEF searchByUID, resolveBySearch, Outcome
  <2>3. PICK r \in LiveCR, b \in {"synced", "drift"}, l \in BOOLEAN :
             /\ wk'[m].pc = AfterObserve(r, b, l)
             /\ wk'[m].pc # "idle" => wk'[m].mr = r /\ wk'[m].obs = b
             /\ Others(m)
             /\ r.ext = a
    BY <1>1, <2>1, <2>2, ObservedMove
  <2>4. a \in Owned(m) /\ Owned(m) \subseteq {a}
    BY <1>1, <2>1 DEF Owning, OwnsOne, Owned
  <2>5. ~Unstamped(a) /\ (Exists(m) => ~Unstamped(cr[m].ext))
    BY <1>1, <2>4, IdentityConstants
       DEF Owning, AdoptsFirst, Unstamped, Owned, searchByUID
  <2> QED BY <1>1, <1>2, <2>2, <2>3, <2>4, <2>5, OwningReport
<1> QED BY <1>4, <1>5, <1>6

\* The runtime's whole-object writes store the reference Observe confirmed.
LEMMA OwningPersist ==
    ASSUME OwnershipInv, OrphanInv', NEW m \in UID, NEW r \in LiveCR,
           NEW p \in {"idle", "pending", "post", "late", "put"}, Persist(m, r, p),
           UNCHANGED <<owner, cache>>,
           wk[m].pc \in {"finalizer", "pending", "late"}, r.ext = wk[m].mr.ext,
           p \in {"pending", "post"} => wk[m].obs = "absent",
           p \in {"late", "put"} => wk[m].obs \in {"synced", "drift"}
    PROVE  OwnershipInv'
<1>1. TypeOK /\ Guarded(m) /\ Owning(m) /\ wk[m] \in Working /\ Busy(m)
  BY WorkingAt DEF OwnershipInv, OrphanInv, Busy
<1>2. /\ wk'[m].pc # "idle" => /\ wk[m].fresh /\ wk'[m].pc = p /\ wk'[m].mr = r
                               /\ wk'[m].obs = wk[m].obs
      /\ cr'[m] = IF wk[m].fresh THEN r ELSE cr[m]
      /\ \A n \in UID \ {m} : cr'[n] = cr[n]
      /\ Others(m)
  BY <1>1, PersistMove DEF PCs
<1>3. \A n \in UID \ {m} : Untouched(n)
  BY <1>2 DEF Untouched, Others
<1>4. wk[m].fresh \in BOOLEAN /\ (wk[m].fresh => Exists(m))
  BY <1>1, WorkingUpdate DEF Guarded, CopiesLag
<1>5. Owning(m)'
  BY <1>1, <1>2, <1>4
     DEF Owning, OwnsOne, AdoptsFirst, ObservationHolds, Busy, Exists, Cached,
         Unstamped, Owned, searchByUID
<1> QED
  BY <1>3, <1>5, OwningQuiet

\* AddFinalizer stores the copy Observe confirmed.
LEMMA OwningAddFinalizer ==
    ASSUME OwnershipInv, OrphanInv', NEW m \in UID, AddFinalizer(m) PROVE OwnershipInv'
<1> DEFINE r == [wk[m].mr EXCEPT !.fin = TRUE]
           p == AfterFinalizer(wk[m].obs, wk[m].late)
<1>1. /\ wk[m].mr \in LiveCR /\ wk[m].pc = "finalizer" /\ wk[m] \in Working
      /\ wk[m].obs # "none"
  BY WorkingAt DEF OwnershipInv, OrphanInv, AddFinalizer, At, Owning, ObservationHolds
<1>2. r \in LiveCR /\ r.ext = wk[m].mr.ext
  BY <1>1 DEF LiveCR
<1>3. /\ p \in {"idle", "pending", "post", "late", "put"}
      /\ p \in {"pending", "post"} => wk[m].obs = "absent"
      /\ p \in {"late", "put"} => wk[m].obs \in {"synced", "drift"}
  BY <1>1, WorkingUpdate DEF AfterFinalizer
<1>4. Persist(m, r, p) /\ UNCHANGED <<owner, cache>>
  BY DEF AddFinalizer
<1> HIDE DEF r, p
<1> QED
  BY <1>1, <1>2, <1>3, <1>4, OwningPersist

\* So does the write before Create.
LEMMA OwningCreatePending ==
    ASSUME OwnershipInv, OrphanInv', NEW m \in UID, CreatePending(m) PROVE OwnershipInv'
<1> DEFINE r == [wk[m].mr EXCEPT !.begun = TRUE]
<1>1. wk[m].mr \in LiveCR /\ wk[m].pc = "pending" /\ wk[m].obs = "absent"
  BY WorkingAt DEF OwnershipInv, OrphanInv, CreatePending, At, Owning, ObservationHolds
<1>2. r \in LiveCR /\ r.ext = wk[m].mr.ext
  BY <1>1 DEF LiveCR
<1>3. Persist(m, r, "post") /\ UNCHANGED <<owner, cache>>
  BY DEF CreatePending
<1> HIDE DEF r
<1> QED
  BY <1>1, <1>2, <1>3, OwningPersist

\* So does the late-initialisation write, a recovered reference included.
LEMMA OwningLateInit ==
    ASSUME OwnershipInv, OrphanInv', NEW m \in UID, LateInit(m) PROVE OwnershipInv'
<1>1. wk[m].mr \in LiveCR /\ wk[m].pc = "late" /\ wk[m].obs \in {"synced", "drift"}
  BY WorkingAt DEF OwnershipInv, OrphanInv, LateInit, At, Owning, ObservationHolds
<1> QED
  BY <1>1, OwningPersist DEF LateInit

\* Removing the finalizer leaves no managed resource to speak of.
LEMMA OwningRemoveFinalizer ==
    ASSUME OwnershipInv, OrphanInv', NEW m \in UID, RemoveFinalizer(m)
    PROVE  OwnershipInv'
<1>1. TypeOK /\ Owning(m)
  BY DEF OwnershipInv, OrphanInv
<1>2. /\ Return(m) /\ UNCHANGED <<owner, cache>>
      /\ cr' = cr \/ cr' = [cr EXCEPT ![m] = GoneCR]
  BY DEF RemoveFinalizer, Persist, Write
<1>3. wk'[m].pc = "idle" /\ Others(m)
  BY <1>1, <1>2, ReturnMove DEF Idle
<1>4. /\ \A n \in UID \ {m} : Untouched(n)
      /\ cr'[m] = cr[m] \/ cr'[m].phase = "gone"
  BY <1>1, <1>2, <1>3 DEF TypeOK, Untouched, Others, GoneCR
<1>5. Owning(m)'
  BY <1>1, <1>2, <1>3, <1>4
     DEF Owning, OwnsOne, AdoptsFirst, ObservationHolds, Busy, Exists, Cached,
         Unstamped, Owned, searchByUID
<1> QED
  BY <1>2, <1>4, <1>5, OwningQuiet

\* A reconcile that ends, or goes on to the call p with the copy r.
LEMMA WorkMove ==
    ASSUME TypeOK, NEW m \in UID, wk[m] \in Working, NEW p \in PCs, NEW r \in LiveCR,
           Return(m) \/ Continue(m, p, r)
    PROVE  /\ Others(m) /\ wk'[m].pc \in {"idle", p}
           /\ wk'[m].pc # "idle" => wk'[m].mr = r
<1>1. CASE Return(m)
  BY <1>1, ReturnMove DEF Idle
<1>2. CASE Continue(m, p, r)
  BY <1>2, ContinueMove
<1> QED BY <1>1, <1>2

\* The two calls that stamp: the object at b is the only one m owns afterwards.
LEMMA OwningStamp ==
    ASSUME OwnershipInv, OrphanInv', NEW m \in UID, wk[m].pc \in {"post", "put"},
           NEW p \in {"name", "refresh"}, NEW b \in Addr, NEW r \in LiveCR,
           r.ext \in Addr => owner'[r.ext] # NoStamp,
           Return(m) \/ Continue(m, p, r), UNCHANGED <<cr, cache>>,
           owner'[b] = m, \A a \in Addr \ {b} : owner'[a] \in {owner[a], Absent},
           Owned(m)' = {b}, Exists(m), cr[m].ext \in Addr => owner'[cr[m].ext] # NoStamp
    PROVE  OwnershipInv'
<1>1. TypeOK /\ Owning(m) /\ wk[m] \in Working
  BY WorkingAt DEF OwnershipInv, OrphanInv
<1>2. NoNewUnstamped /\ \A n \in UID \ {m} : Owned(n)' \subseteq Owned(n)
  BY IdentityConstants DEF NoNewUnstamped, Owned, searchByUID
<1>3. p \in PCs
  BY DEF PCs
<1>4. /\ Others(m) /\ wk'[m].pc \in {"idle", p}
      /\ wk'[m].pc # "idle" => wk'[m].mr = r
  BY <1>1, <1>3, WorkMove
<1>5. \A n \in UID \ {m} : Untouched(n)
  BY <1>4 DEF Untouched, Others
<1>6. Owning(m)'
  BY <1>1, <1>2, <1>4, IdentityConstants
     DEF Owning, OwnsOne, AdoptsFirst, ObservationHolds, Busy, Exists, Cached,
         Unstamped, NoNewUnstamped
<1> QED
  BY <1>2, <1>5, <1>6, OwningLift

\* createARecord takes a free address and leaves the others.
LEMMA CreatedMove ==
    ASSUME TypeOK, NEW m \in UID, wk[m].mr \in LiveCR, Created(m)
    PROVE  LET b == wk[m].mr.addr IN
           /\ b \in Addr /\ owner[b] = Absent /\ owner'[b] = m
           /\ \A a \in Addr \ {b} : owner'[a] = owner[a]
  BY DEF Created, TypeOK, LiveCR

\* createARecord is only reached when nothing was stamped, and nothing is since.
LEMMA OwningCreated ==
    ASSUME OwnershipInv, OrphanInv', NEW m \in UID, wk[m].pc = "post", Created(m),
           NEW r \in LiveCR, r.ext \in {wk[m].mr.ext, wk[m].mr.addr},
           Continue(m, "name", r), UNCHANGED <<cr, cache>>
    PROVE  OwnershipInv'
<1> DEFINE b == wk[m].mr.addr
<1>1. TypeOK /\ Guarded(m) /\ Owning(m) /\ wk[m].mr \in LiveCR
  BY WorkingAt DEF OwnershipInv, OrphanInv
<1>2. /\ Exists(m) /\ Owned(m) = {}
      /\ ~Unstamped(cr[m].ext) /\ ~Unstamped(wk[m].mr.ext)
  BY <1>1 DEF Guarded, StageFits, FinalizerHolds, Busy, Owning, ObservationHolds
<1>3. /\ b \in Addr /\ owner'[b] = m
      /\ \A a \in Addr \ {b} : owner'[a] = owner[a]
  BY <1>1, CreatedMove
<1> HIDE DEF b
<1>4. Owned(m)' = {b}
  BY <1>2, <1>3 DEF Owned, searchByUID
<1>5. /\ cr[m].ext \in Addr => owner'[cr[m].ext] # NoStamp
      /\ wk[m].mr.ext \in Addr => owner'[wk[m].mr.ext] # NoStamp
  BY <1>2, <1>3, IdentityConstants DEF Unstamped
<1>6. r.ext \in Addr => owner'[r.ext] # NoStamp
  BY <1>3, <1>5, IdentityConstants DEF b
<1> QED
  BY <1>2, <1>3, <1>4, <1>5, <1>6, OwningStamp

\* The reply tells the reference.
LEMMA OwningCreate ==
    ASSUME OwnershipInv, OrphanInv', NEW m \in UID, Create(m) PROVE OwnershipInv'
<1> DEFINE q == [wk[m].mr EXCEPT !.ext = wk[m].mr.addr]
<1>1. wk[m].pc = "post" /\ wk[m].mr \in LiveCR
  BY WorkingAt DEF OwnershipInv, OrphanInv, Create, At
<1>2. q \in LiveCR /\ q.ext = wk[m].mr.addr
  BY <1>1 DEF LiveCR
<1>3. Created(m) /\ Continue(m, "name", q) /\ UNCHANGED <<cr, cache>>
  BY DEF Create
<1> HIDE DEF q
<1> QED
  BY <1>1, <1>2, <1>3, OwningCreated

\* Without it the object has its stamp, and the annotation the reference it had,
\* which is not one to an unstamped object.
LEMMA OwningCreateFails ==
    ASSUME OwnershipInv, OrphanInv', NEW m \in UID, CreateFails(m) PROVE OwnershipInv'
<1>1. /\ TypeOK /\ Owning(m) /\ wk[m].pc = "post" /\ wk[m].mr \in LiveCR
      /\ wk[m] \in Working
  BY WorkingAt DEF OwnershipInv, OrphanInv, CreateFails, At
<1>2. Continue(m, "name", wk[m].mr) /\ UNCHANGED <<cr, cache>>
  BY DEF CreateFails
<1>3. CASE Created(m)
  BY <1>1, <1>2, <1>3, OwningCreated
<1>4. CASE owner' = owner
  <2>1. wk'[m].pc = "name" /\ wk'[m].mr = wk[m].mr /\ Others(m)
    BY <1>1, <1>2, ContinueMove DEF PCs
  <2>2. \A n \in UID \ {m} : Untouched(n)
    BY <1>2, <2>1 DEF Untouched, Others
  <2>3. Owning(m)'
    BY <1>1, <1>2, <1>4, <2>1
       DEF Owning, OwnsOne, AdoptsFirst, ObservationHolds, Busy, Exists, Cached,
           Unstamped, Owned, searchByUID
  <2> QED BY <1>4, <2>2, <2>3, OwningQuiet
<1> QED BY <1>3, <1>4 DEF CreateFails

\* updateARecord stamps the object Observe found, which is the only one m owns
\* or one that nobody had stamped when m owned none.
LEMMA OwningUpdate ==
    ASSUME OwnershipInv, OrphanInv', NEW m \in UID, Update(m) PROVE OwnershipInv'
<1> DEFINE r == wk[m].mr
           q == [r EXCEPT !.ext = r.addr]
<1>1. TypeOK /\ Guarded(m) /\ Owning(m) /\ wk[m].pc = "put" /\ r \in LiveCR
  BY WorkingAt DEF OwnershipInv, OrphanInv, Update, At
<1>2. q \in LiveCR /\ q.ext = r.addr /\ r.addr \in Addr
  BY <1>1 DEF LiveCR
<1>3. Exists(m) /\ r.ext \in Addr /\ Owned(m) \subseteq {r.ext}
  BY <1>1 DEF Guarded, StageFits, FinalizerHolds, Busy, Owning, ObservationHolds
<1>4. r.ext # cr[m].ext => ~Unstamped(cr[m].ext)
  BY <1>1, <1>3 DEF Owning, AdoptsFirst, Busy
<1>5. UNCHANGED <<cr, cache>>
  BY DEF Update
<1>6. CASE isNotFound(owner, r.ext) \/ (r.addr # r.ext /\ owner[r.addr] # Absent)
  <2>1. Return(m) /\ owner' = owner
    BY <1>6 DEF Update
  <2> QED BY <1>5, <2>1, OwningReturn DEF NoNewUnstamped, Owned
<1>7. CASE ~(isNotFound(owner, r.ext) \/ (r.addr # r.ext /\ owner[r.addr] # Absent))
  <2>1. /\ owner' = [owner EXCEPT ![r.ext] = Absent, ![r.addr] = m]
        /\ Return(m) \/ Continue(m, "refresh", q)
    BY <1>7 DEF Update
  <2>2. /\ owner'[r.addr] = m
        /\ \A a \in Addr \ {r.addr} :
             owner'[a] = IF a = r.ext THEN Absent ELSE owner[a]
    BY <1>1, <1>2, <1>3, <2>1 DEF TypeOK
  <2>3. Owned(m)' = {r.addr}
    BY <1>2, <1>3, <2>2, IdentityConstants DEF Owned, searchByUID
  <2>4. cr[m].ext \in Addr => owner'[cr[m].ext] # NoStamp
    BY <1>2, <1>4, <2>2, IdentityConstants DEF Unstamped
  <2>5. \A a \in Addr \ {r.addr} : owner'[a] \in {owner[a], Absent}
    BY <2>2
  <2>6. q.ext \in Addr => owner'[q.ext] # NoStamp
    BY <1>2, <2>2, IdentityConstants
  <2> HIDE DEF q
  <2> QED
    BY <1>1, <1>2, <1>3, <1>5, <2>1, <2>2, <2>3, <2>4, <2>5, <2>6, OwningStamp
<1> QED BY <1>6, <1>7

\* The annotations alone are written, with the reference of the stamped object.
LEMMA OwningWriteName ==
    ASSUME OwnershipInv, OrphanInv', NEW m \in UID, wk[m].pc \in {"name", "refresh"},
           NEW begun, WriteExternalName(m, begun)
    PROVE  OwnershipInv'
<1>1. TypeOK /\ Owning(m) /\ wk[m].mr \in LiveCR /\ Busy(m)
  BY WorkingAt DEF OwnershipInv, OrphanInv, Busy
<1>2. wk'[m].pc = "idle" /\ Others(m) /\ UNCHANGED <<owner, cache>>
  BY <1>1, ReturnMove DEF WriteExternalName, Idle
<1>3. /\ \A n \in UID \ {m} : cr'[n] = cr[n]
      /\ Exists(m) => cr'[m].ext = wk[m].mr.ext
      /\ ~Exists(m) => cr'[m] = cr[m]
  <2>1. CASE ~Exists(m)
    BY <1>1, <2>1 DEF WriteExternalName, TypeOK
  <2>2. CASE Exists(m)
    <3> DEFINE r == [cr[m] EXCEPT !.ext = wk[m].mr.ext, !.begun = begun]
    <3>1. cr[m] \in LiveCR
      BY <1>1, <2>2, ExistsLive DEF Exists
    <3>2. r.ext = wk[m].mr.ext
      BY <3>1 DEF LiveCR
    <3>3. cr' = [cr EXCEPT ![m] = r]
      BY <2>2 DEF WriteExternalName, Write
    <3> HIDE DEF r
    <3> QED
      BY <1>1, <2>2, <3>2, <3>3 DEF TypeOK
  <2> QED BY <2>1, <2>2
<1>4. \A n \in UID \ {m} : Untouched(n)
  BY <1>2, <1>3 DEF Untouched, Others
<1>5. ~Unstamped(wk[m].mr.ext) /\ ~Unstamped(cr[m].ext)
  BY <1>1 DEF Owning, ObservationHolds
<1>6. Owning(m)'
  BY <1>1, <1>2, <1>3, <1>5
     DEF Owning, OwnsOne, AdoptsFirst, ObservationHolds, Busy, Exists, Cached,
         Unstamped, Owned, searchByUID
<1> QED
  BY <1>2, <1>4, <1>6, OwningQuiet

\* Delete goes on to its next call without touching the Grid.
LEMMA OwningDeleteStage ==
    ASSUME OwnershipInv, OrphanInv', NEW m \in UID, Busy(m),
           NEW p \in {"dsearch", "delete"}, NEW r \in LiveCR, Continue(m, p, r),
           UNCHANGED <<owner, cr, cache>>,
           Exists(m) /\ r.ext # cr[m].ext
             => ~Unstamped(r.ext) /\ ~Unstamped(cr[m].ext)
    PROVE  OwnershipInv'
<1>1. TypeOK /\ Owning(m) /\ wk[m] \in Working
  BY WorkingAt DEF OwnershipInv, OrphanInv, Busy
<1>2. p \in PCs
  BY DEF PCs
<1>3. wk'[m].pc = p /\ wk'[m].mr = r /\ Others(m)
  BY <1>1, <1>2, ContinueMove
<1>4. \A n \in UID \ {m} : Untouched(n)
  BY <1>3 DEF Untouched, Others
<1>5. Owning(m)'
  BY <1>1, <1>3
     DEF Owning, OwnsOne, AdoptsFirst, ObservationHolds, Busy, Exists, Cached,
         Unstamped, Owned, searchByUID
<1> QED
  BY <1>4, <1>5, OwningQuiet

\* deleteARecordIdentity, GET of the stored reference.
LEMMA OwningDeleteGet ==
    ASSUME OwnershipInv, OrphanInv', NEW m \in UID, DeleteGet(m) PROVE OwnershipInv'
<1>1. Busy(m) /\ Owning(m) /\ wk[m].mr \in LiveCR
  BY WorkingAt DEF OwnershipInv, OrphanInv, DeleteGet, At, Busy
<1>2. /\ UNCHANGED <<owner, cr, cache>>
      /\ \/ Return(m)
         \/ \E p \in {"dsearch", "delete"} : Continue(m, p, wk[m].mr)
  BY DEF DeleteGet
<1>3. Exists(m) /\ wk[m].mr.ext # cr[m].ext
        => ~Unstamped(wk[m].mr.ext) /\ ~Unstamped(cr[m].ext)
  BY <1>1 DEF Owning, AdoptsFirst
<1>4. CASE Return(m)
  BY <1>2, <1>4, OwningReturn DEF NoNewUnstamped, Owned
<1>5. ASSUME NEW p \in {"dsearch", "delete"}, Continue(m, p, wk[m].mr)
      PROVE  OwnershipInv'
  BY <1>1, <1>2, <1>3, <1>5, OwningDeleteStage
<1> QED
  BY <1>2, <1>4, <1>5

\* deleteARecordIdentity, search by uid.
LEMMA OwningDeleteSearch ==
    ASSUME OwnershipInv, OrphanInv', NEW m \in UID, DeleteSearch(m) PROVE OwnershipInv'
<1>1. Busy(m) /\ Owning(m) /\ wk[m].mr \in LiveCR
  BY WorkingAt DEF OwnershipInv, OrphanInv, DeleteSearch, At, Busy
<1>2. UNCHANGED <<owner, cr, cache>>
  BY DEF DeleteSearch
<1>3. CASE Return(m)
  BY <1>2, <1>3, OwningReturn DEF NoNewUnstamped, Owned
<1>4. ASSUME NEW a \in Owned(m), Continue(m, "delete", [wk[m].mr EXCEPT !.ext = a])
      PROVE  OwnershipInv'
  <2> DEFINE r == [wk[m].mr EXCEPT !.ext = a]
  <2>1. a \in Addr /\ owner[a] = m
    BY DEF Owned, searchByUID
  <2>2. r \in LiveCR /\ r.ext = a
    BY <1>1, <2>1 DEF LiveCR
  <2>3. Continue(m, "delete", r)
    BY <1>4
  <2> HIDE DEF r
  <2>4. ~Unstamped(a) /\ (Exists(m) => ~Unstamped(cr[m].ext))
    BY <1>1, <2>1, IdentityConstants DEF Owning, AdoptsFirst, Unstamped
  <2> QED
    BY <1>1, <1>2, <2>2, <2>3, <2>4, OwningDeleteStage
<1> QED
  BY <1>3, <1>4 DEF DeleteSearch, Owned

\* deleteARecord only takes stamps away.
LEMMA OwningDelete ==
    ASSUME OwnershipInv, OrphanInv', NEW m \in UID, Delete(m) PROVE OwnershipInv'
<1>1. TypeOK
  BY DEF OwnershipInv, OrphanInv
<1>2. \A a \in Addr : owner'[a] \in {owner[a], Absent}
  BY <1>1 DEF Delete, TypeOK
<1>3. NoNewUnstamped /\ \A n \in UID : Owned(n)' \subseteq Owned(n)
  BY <1>2, IdentityConstants DEF NoNewUnstamped, Owned, searchByUID
<1> QED
  BY <1>3, OwningReturn DEF Delete

\* A crash or a failed call forgets what Observe found.
LEMMA OwningAbort ==
    ASSUME OwnershipInv, OrphanInv', NEW m \in UID, Abort(m) PROVE OwnershipInv'
  BY OwningReturn DEF Abort, NoNewUnstamped, Owned

\* An administrator who only deletes neither adds a stamp nor removes one
\* from an object that stays.
LEMMA OwningAdmin ==
    ASSUME OnlyDeletes, OwnershipInv, OrphanInv', Admin PROVE OwnershipInv'
<1>1. TypeOK
  BY DEF OwnershipInv, OrphanInv
<1>2. \A a \in Addr : owner'[a] \in {owner[a], Absent}
  BY <1>1 DEF Admin, OnlyDeletes, TypeOK
<1>3. NoNewUnstamped /\ \A n \in UID : Owned(n)' \subseteq Owned(n)
  BY <1>2, IdentityConstants DEF NoNewUnstamped, Owned, searchByUID
<1>4. \A n \in UID : Untouched(n)
  BY DEF Admin, Untouched
<1> QED
  BY <1>3, <1>4, OwningFrame DEF OwnershipInv

-----------------------------------------------------------------------------
\* Initially nothing is stamped.
LEMMA OwnershipInit == Init => OwnershipInv
<1> SUFFICES ASSUME Init PROVE OwnershipInv
  OBVIOUS
<1>1. ASSUME NEW m \in UID PROVE Owning(m)
  <2>1. cr[m] = NoCR /\ cache[m] = NoCR /\ wk[m] = Idle
    BY DEF Init
  <2>2. Owned(m) = {}
    BY IdentityConstants DEF Init, Owned, searchByUID
  <2> QED
    BY <2>1, <2>2
       DEF Owning, OwnsOne, AdoptsFirst, ObservationHolds, Busy, Exists, Cached,
           NoCR, Idle
<1> QED
  BY <1>1, OrphanInit DEF OwnershipInv

\* The invariant is inductive when administrators only delete.
LEMMA OwnershipNext == OnlyDeletes /\ OwnershipInv /\ [Next]_vars => OwnershipInv'
<1> SUFFICES ASSUME OnlyDeletes, OwnershipInv, [Next]_vars PROVE OwnershipInv'
  OBVIOUS
<1>0. OrphanInv'
  BY OrphanNext DEF OwnershipInv
<1>1. CASE UNCHANGED vars
  BY <1>0, <1>1
     DEF vars, OwnershipInv, Owning, OwnsOne, AdoptsFirst, ObservationHolds, Busy,
         Exists, Cached, Unstamped, Owned
<1>2. ASSUME NEW m \in UID, User(m) \/ Sync(m) \/ Abort(m) PROVE OwnershipInv'
  BY <1>0, <1>2, OwningNewRecord, OwningEditSpec, OwningDeleteCR, OwningUnblock,
     OwningSync, OwningAbort DEF User
<1>3. ASSUME NEW m \in UID, Reconcile(m) PROVE OwnershipInv'
  BY <1>0, <1>3, OwningBegin, OwningObserveGet, OwningObserveSearch, OwningAddFinalizer,
     OwningCreatePending, OwningLateInit, OwningRemoveFinalizer, OwningCreate,
     OwningCreateFails, OwningUpdate, OwningWriteName, OwningDeleteGet,
     OwningDeleteSearch, OwningDelete
     DEF Reconcile, UpdateCriticalAnnotations, Refresh, At
<1> QED
  BY <1>0, <1>1, <1>2, <1>3, OwningAdmin DEF Next

\* However many managed resources, addresses, aborted reconciles and edits
\* there are, no managed resource ever owns two Grid objects, as long as
\* administrators do not create, rename or strip objects: Observe's verdict
\* of resolveByRef and searchByUID is still right when Create or Update acts.
THEOREM UniqueOwnershipHolds == OnlyDeletes => (Spec => []UniqueOwnership)
<1> SUFFICES ASSUME OnlyDeletes PROVE Spec => []UniqueOwnership
  OBVIOUS
<1>1. OwnershipInv /\ [Next]_vars => OwnershipInv'
  BY OwnershipNext
<1>2. OwnershipInv => UniqueOwnership
  BY DEF OwnershipInv, Owning, UniqueOwnership
<1> QED
  BY <1>1, <1>2, OwnershipInit, PTL DEF Spec

-----------------------------------------------------------------------------
(***************************************************************************)
(* OwnerOnly: no reconcile touches another managed resource's object.      *)
(*                                                                         *)
(* PUT and DELETE name a reference that was verified one or more steps     *)
(* earlier.  The proof carries the verdict of resolveByRef to the call     *)
(* that acts on it (Entitled), from two assumptions: nobody works behind   *)
(* the provider's back, and no two managed resources import one object.    *)
(*                                                                         *)
(* Implements rests on the same invariant.                                 *)
(***************************************************************************)
NoAdmins == AdminOps = {}

DisjointImports == \A m, n \in UID : m # n => Imports[m] \cap Imports[n] = {}

\* What a step of m changes on the Grid is m's, or nobody's and at an address
\* that was free.
Spares(m) == \A a \in Addr : \/ owner'[a] = owner[a]
                             \/ /\ owner'[a] \in {m, Absent}
                                /\ Mine(m, a) \/ owner[a] = Absent

\* A step that spares what is not m's keeps every other resource entitled.
LEMMA EntitledLift ==
    ASSUME DisjointImports, EntitledInv, OwnershipInv', NEW m \in UID, Spares(m),
           Entitled(m)', \A n \in UID \ {m} : Untouched(n)
    PROVE  EntitledInv'
<1>1. ASSUME NEW n \in UID, n # m PROVE Entitled(n)'
  <2>1. \A a \in Addr : Mine(n, a) => owner'[a] = owner[a]
    BY <1>1, IdentityConstants DEF Spares, Mine, DisjointImports
  <2>2. \A a \in Addr : owner'[a] = NoStamp => owner[a] = NoStamp
    BY IdentityConstants DEF Spares
  <2>3. Entitled(n) /\ Owning(n) /\ Untouched(n)
    BY <1>1 DEF EntitledInv, OwnershipInv
  <2> QED
    BY <2>1, <2>2, <2>3
       DEF Entitled, Owning, ObservationHolds, Untouched, Mine, Unstamped, Busy,
           Exists, Cached
<1> QED
  BY <1>1 DEF EntitledInv

\* Steps that leave the Grid alone.
LEMMA EntitledQuiet ==
    ASSUME DisjointImports, EntitledInv, OwnershipInv', NEW m \in UID, owner' = owner,
           Entitled(m)', \A n \in UID \ {m} : Untouched(n)
    PROVE  EntitledInv'
  BY EntitledLift DEF Spares

\* What a user writes to a resource that exists has its finalizer and its
\* reference; without a finalizer a deletion leaves none.
LEMMA UserWrite ==
    ASSUME TypeOK, NEW m \in UID, EditSpec(m) \/ DeleteCR(m) \/ Unblock(m)
    PROVE  /\ cr[m] \in LiveCR /\ Exists(m) /\ Outdate(m) /\ UNCHANGED <<owner, cache>>
           /\ \A n \in UID \ {m} : cr'[n] = cr[n]
           /\ \/ cr'[m].phase = "gone" /\ ~cr[m].fin
              \/ /\ cr'[m].phase \in {"live", "deleting"}
                 /\ cr'[m].fin = cr[m].fin /\ cr'[m].ext = cr[m].ext
<1>1. cr[m] \in LiveCR /\ Exists(m) /\ Outdate(m) /\ UNCHANGED <<owner, cache>>
  BY ExistsLive DEF EditSpec, DeleteCR, Unblock, Exists
<1>2. CASE EditSpec(m)
  <2>1. PICK a \in Addr, v \in SpecVal :
          cr' = [cr EXCEPT ![m] = [cr[m] EXCEPT !.addr = a, !.val = v]]
    BY <1>2 DEF EditSpec, Write
  <2> DEFINE r == [cr[m] EXCEPT !.addr = a, !.val = v]
  <2>2. r.phase \in {"live", "deleting"} /\ r.fin = cr[m].fin /\ r.ext = cr[m].ext
    BY <1>1 DEF LiveCR
  <2>3. cr' = [cr EXCEPT ![m] = r]
    BY <2>1
  <2> HIDE DEF r
  <2> QED BY <1>1, <2>2, <2>3 DEF TypeOK
<1>3. CASE DeleteCR(m)
  <2> DEFINE r == IF cr[m].fin THEN [cr[m] EXCEPT !.phase = "deleting"] ELSE GoneCR
  <2>1. /\ cr' = [cr EXCEPT ![m] = r]
        /\ cr[m].fin => r.phase = "deleting" /\ r.fin = cr[m].fin /\ r.ext = cr[m].ext
        /\ ~cr[m].fin => r.phase = "gone"
    BY <1>1, <1>3 DEF DeleteCR, Write, LiveCR, GoneCR
  <2> HIDE DEF r
  <2> QED BY <1>1, <2>1 DEF TypeOK
<1>4. CASE Unblock(m)
  <2> DEFINE r == [cr[m] EXCEPT !.begun = FALSE]
  <2>1. /\ cr' = [cr EXCEPT ![m] = r] /\ r.phase \in {"live", "deleting"}
        /\ r.fin = cr[m].fin /\ r.ext = cr[m].ext
    BY <1>1, <1>4 DEF Unblock, Write, LiveCR
  <2> HIDE DEF r
  <2> QED BY <1>1, <2>1 DEF TypeOK
<1> QED BY <1>2, <1>3, <1>4

\* Users: the references they set are those they may import.
LEMMA EntitledUser ==
    ASSUME DisjointImports, EntitledInv, OwnershipInv', NEW m \in UID, User(m)
    PROVE  EntitledInv'
<1>1. TypeOK /\ Guarded(m) /\ Owning(m) /\ Entitled(m)
  BY DEF EntitledInv, OwnershipInv, OrphanInv
<1>2. CASE NewRecord(m)
  <2>1. PICK e \in {NoRef} \cup Imports[m] :
          /\ cr'[m].ext = e /\ UNCHANGED <<owner, cache, wk>>
          /\ \A n \in UID \ {m} : Untouched(n)
    BY <1>1, <1>2 DEF NewRecord, Write, TypeOK, Untouched
  <2>2. Entitled(m)'
    BY <1>1, <2>1, IdentityConstants
       DEF Entitled, Mine, Unstamped, Busy, Exists, Cached
  <2> QED BY <2>1, <2>2, EntitledQuiet
<1>3. CASE EditSpec(m) \/ DeleteCR(m) \/ Unblock(m)
  <2>1. /\ cr[m] \in LiveCR /\ Exists(m) /\ Outdate(m) /\ UNCHANGED <<owner, cache>>
        /\ \A n \in UID \ {m} : cr'[n] = cr[n]
        /\ cr'[m].phase = "gone" \/ cr'[m].ext = cr[m].ext
    BY <1>1, <1>3, UserWrite
  <2>2. /\ wk'[m].pc = wk[m].pc /\ Others(m)
        /\ Busy(m) => wk'[m].mr = wk[m].mr /\ wk'[m].obs = wk[m].obs
    BY <1>1, <2>1, OutdateMove
  <2>3. \A n \in UID \ {m} : Untouched(n)
    BY <2>1, <2>2 DEF Untouched, Others
  <2>4. Entitled(m)'
    BY <1>1, <2>1, <2>2 DEF Entitled, Mine, Unstamped, Busy, Exists, Cached
  <2> QED BY <2>1, <2>3, <2>4, EntitledQuiet
<1> QED BY <1>2, <1>3 DEF User

\* The informer's reference is one the API server holds.
LEMMA EntitledSync ==
    ASSUME DisjointImports, EntitledInv, OwnershipInv', NEW m \in UID, Sync(m)
    PROVE  EntitledInv'
<1>1. TypeOK /\ Entitled(m)
  BY DEF EntitledInv, OwnershipInv, OrphanInv
<1>2. /\ UNCHANGED <<owner, cr, wk>> /\ cache'[m] = cr[m]
      /\ \A n \in UID \ {m} : Untouched(n)
  BY <1>1 DEF Sync, TypeOK, Untouched
<1>3. Entitled(m)'
  BY <1>1, <1>2 DEF Entitled, Mine, Unstamped, Busy, Exists, Cached
<1> QED
  BY <1>2, <1>3, EntitledQuiet

\* A reconcile starts with the informer's reference.
LEMMA EntitledBegin ==
    ASSUME DisjointImports, EntitledInv, OwnershipInv', NEW m \in UID, Begin(m)
    PROVE  EntitledInv'
<1>1. TypeOK /\ Entitled(m)
  BY DEF EntitledInv, OwnershipInv, OrphanInv
<1>2. /\ wk'[m].mr = cache[m] /\ wk'[m].pc \in {"get", "search"} /\ Cached(m)
      /\ UNCHANGED <<owner, cr, cache>> /\ \A n \in UID \ {m} : Untouched(n)
  BY <1>1 DEF Begin, TypeOK, Untouched, observeRefFor, Cached
<1>3. Entitled(m)'
  BY <1>1, <1>2 DEF Entitled, Mine, Unstamped, Busy, Exists, Cached
<1> QED
  BY <1>2, <1>3, EntitledQuiet

\* A reconcile that ends, having changed nothing but m's own object.
LEMMA EntitledReturn ==
    ASSUME DisjointImports, EntitledInv, OwnershipInv', NEW m \in UID, Return(m),
           UNCHANGED <<cr, cache>>, Spares(m)
    PROVE  EntitledInv'
<1>1. TypeOK /\ Entitled(m)
  BY DEF EntitledInv, OwnershipInv, OrphanInv
<1>2. wk'[m].pc = "idle" /\ \A n \in UID \ {m} : Untouched(n)
  BY <1>1, ReturnMove DEF Idle, Others, Untouched
<1>3. \A a \in Addr : owner'[a] = NoStamp => owner[a] = NoStamp
  BY IdentityConstants DEF Spares
<1>4. Entitled(m)'
  BY <1>1, <1>2, <1>3 DEF Entitled, Mine, Unstamped, Busy, Exists, Cached
<1> QED
  BY <1>2, <1>4, EntitledLift

\* A reconcile that goes on with a copy whose reference is m's, or no object's.
LEMMA EntitledMove ==
    ASSUME DisjointImports, EntitledInv, OwnershipInv', NEW m \in UID,
           UNCHANGED <<owner, cr, cache>>, Others(m),
           wk'[m].pc # "idle" /\ Unstamped(wk'[m].mr.ext)
             => wk'[m].mr.ext \in Imports[m],
           wk'[m].pc \in {"finalizer", "late", "put"} /\ wk'[m].obs # "absent"
             => Mine(m, wk'[m].mr.ext),
           wk'[m].pc = "dget" => wk'[m].mr.ext \in Addr,
           wk'[m].pc = "delete" => wk'[m].mr.ext \in Addr /\ owner[wk'[m].mr.ext] = m
    PROVE  EntitledInv'
<1>1. Entitled(m) /\ \A n \in UID \ {m} : Untouched(n)
  BY DEF EntitledInv, Untouched, Others
<1>2. Entitled(m)'
  BY <1>1 DEF Entitled, Mine, Unstamped, Busy, Exists, Cached
<1> QED
  BY <1>1, <1>2, EntitledQuiet

\* The object a GET found is m's, or one that only m imports.
LEMMA EntitledObserveGet ==
    ASSUME DisjointImports, EntitledInv, OwnershipInv', NEW m \in UID, ObserveGet(m)
    PROVE  EntitledInv'
<1> DEFINE ref == wk[m].mr.ext
           o == resolveByRef(owner, ref, m)
<1>1. /\ TypeOK /\ Entitled(m) /\ wk[m] \in Working /\ wk[m].mr \in LiveCR
      /\ ref \in Addr /\ Busy(m)
  BY WorkingAt DEF EntitledInv, OwnershipInv, OrphanInv, ObserveGet, At, Guarded,
     StageFits, Busy
<1>2. UNCHANGED <<owner, cr, cache>> /\ (Unstamped(ref) => ref \in Imports[m])
  BY <1>1 DEF ObserveGet, Entitled
<1>3. CASE o = "Search"
  <2>1. Continue(m, "search", wk[m].mr)
    BY <1>3 DEF ObserveGet
  <2>2. Others(m) /\ wk'[m].pc = "search" /\ wk'[m].mr = wk[m].mr
    BY <1>1, <2>1, ContinueMove DEF PCs
  <2> QED BY <1>2, <2>2, EntitledMove
<1>4. CASE o = "HandleReuseError"
  <2>1. Return(m)
    BY <1>4 DEF ObserveGet
  <2> QED BY <1>2, <2>1, EntitledReturn DEF Spares
<1>5. CASE o \notin {"Search", "HandleReuseError"}
  <2>1. Observed(m, ref, o) /\ o \in Outcome
    BY <1>5 DEF ObserveGet, resolveByRef, Outcome
  <2>2. PICK r \in LiveCR, b \in {"synced", "drift"}, l \in BOOLEAN :
             /\ wk'[m].pc = AfterObserve(r, b, l)
             /\ wk'[m].pc # "idle" => wk'[m].mr = r
             /\ Others(m) /\ r.ext = ref
    BY <1>1, <2>1, ObservedMove
  <2>3. Mine(m, ref)
    BY <1>1, <1>2, <1>5 DEF resolveByRef, Mine, Unstamped
  <2>4. wk'[m].pc # "delete"
    BY <2>2 DEF AfterObserve, AfterFinalizer
  <2>5. ref \in Addr
    BY <1>1
  <2> HIDE DEF ref
  <2> QED BY <1>2, <2>2, <2>3, <2>4, <2>5, EntitledMove
<1> QED BY <1>3, <1>4, <1>5

\* The object a search by uid found is m's.
LEMMA EntitledObserveSearch ==
    ASSUME DisjointImports, EntitledInv, OwnershipInv', NEW m \in UID, ObserveSearch(m)
    PROVE  EntitledInv'
<1> DEFINE o == resolveBySearch(owner, wk[m].mr.ext, m)
<1>1. /\ TypeOK /\ Entitled(m) /\ wk[m] \in Working /\ wk[m].mr \in LiveCR /\ Busy(m)
  BY WorkingAt DEF EntitledInv, OwnershipInv, OrphanInv, ObserveSearch, At, Busy
<1>2. UNCHANGED <<owner, cr, cache>>
  BY DEF ObserveSearch
<1>3. CASE o = "NotFound"
  <2>1. Report(m, wk[m].mr, "absent", FALSE)
    BY <1>3 DEF ObserveSearch
  <2>2. /\ Others(m) /\ wk'[m].pc = AfterObserve(wk[m].mr, "absent", FALSE)
        /\ wk'[m].pc # "idle" => wk'[m].mr = wk[m].mr /\ wk'[m].obs = "absent"
    BY <1>1, <2>1, ReportMove
  <2>3. wk'[m].pc \notin {"dget", "delete"}
    BY <2>2 DEF AfterObserve, AfterFinalizer
  <2>4. Unstamped(wk[m].mr.ext) => wk[m].mr.ext \in Imports[m]
    BY <1>1 DEF Entitled
  <2> QED BY <1>2, <2>2, <2>3, <2>4, EntitledMove
<1>4. CASE o = "AmbiguousMatchError"
  <2>1. Return(m)
    BY <1>4 DEF ObserveSearch
  <2> QED BY <1>2, <2>1, EntitledReturn DEF Spares
<1>5. CASE o \notin {"NotFound", "AmbiguousMatchError"}
  <2>1. PICK a \in searchByUID(owner, m) : Observed(m, a, o)
    BY <1>5 DEF ObserveSearch
  <2>2. a \in Addr /\ owner[a] = m /\ o \in Outcome /\ o \in {"Rotated", "FoundByUID"}
    BY <1>5, <2>1 DEF searchByUID, resolveBySearch, Outcome
  <2>3. PICK r \in LiveCR, b \in {"synced", "drift"}, l \in BOOLEAN :
             /\ wk'[m].pc = AfterObserve(r, b, l)
             /\ wk'[m].pc # "idle" => wk'[m].mr = r
             /\ Others(m) /\ r.ext = a
    BY <1>1, <2>1, <2>2, ObservedMove
  <2>4. Mine(m, a) /\ ~Unstamped(a)
    BY <2>2, IdentityConstants DEF Mine, Unstamped
  <2>5. wk'[m].pc # "delete"
    BY <2>3 DEF AfterObserve, AfterFinalizer
  <2> QED BY <1>2, <2>2, <2>3, <2>4, <2>5, EntitledMove
<1> QED BY <1>3, <1>4, <1>5

\* The runtime's whole-object writes.
LEMMA EntitledPersist ==
    ASSUME DisjointImports, EntitledInv, OwnershipInv', NEW m \in UID, NEW r \in LiveCR,
           NEW p \in {"idle", "pending", "post", "late", "put"}, Persist(m, r, p),
           UNCHANGED <<owner, cache>>,
           wk[m].pc \in {"finalizer", "pending", "late"}, r.ext = wk[m].mr.ext,
           p \in {"late", "put"} => wk[m].pc # "pending" /\ wk[m].obs # "absent"
    PROVE  EntitledInv'
<1>1. TypeOK /\ Entitled(m) /\ wk[m] \in Working /\ Busy(m)
  BY WorkingAt DEF EntitledInv, OwnershipInv, OrphanInv, Busy
<1>2. /\ wk'[m].pc # "idle" => /\ wk'[m].pc = p /\ wk'[m].mr = r
                               /\ wk'[m].obs = wk[m].obs
      /\ cr'[m] = IF wk[m].fresh THEN r ELSE cr[m]
      /\ \A n \in UID \ {m} : cr'[n] = cr[n]
      /\ Others(m)
  BY <1>1, PersistMove DEF PCs
<1>3. \A n \in UID \ {m} : Untouched(n)
  BY <1>2 DEF Untouched, Others
<1>4. cr'[m] = r \/ cr'[m] = cr[m]
  BY <1>2
<1>5. Entitled(m)'
  BY <1>1, <1>2, <1>4 DEF Entitled, Mine, Unstamped, Busy, Exists, Cached
<1> QED
  BY <1>3, <1>5, EntitledQuiet

\* The three whole-object writes of the runtime before Create and Update.
LEMMA EntitledRuntime ==
    ASSUME DisjointImports, EntitledInv, OwnershipInv', NEW m \in UID,
           AddFinalizer(m) \/ CreatePending(m) \/ LateInit(m)
    PROVE  EntitledInv'
<1>1. /\ wk[m].pc \in {"finalizer", "pending", "late"} /\ wk[m] \in Working
      /\ wk[m].mr \in LiveCR /\ UNCHANGED <<owner, cache>> /\ Owning(m)
  BY WorkingAt DEF EntitledInv, OwnershipInv, OrphanInv, AddFinalizer, CreatePending,
     LateInit, At
<1>2. CASE AddFinalizer(m)
  <2> DEFINE r == [wk[m].mr EXCEPT !.fin = TRUE]
             p == AfterFinalizer(wk[m].obs, wk[m].late)
  <2>1. r \in LiveCR /\ r.ext = wk[m].mr.ext
    BY <1>1 DEF LiveCR
  <2>2. /\ p \in {"idle", "pending", "post", "late", "put"}
        /\ p \in {"late", "put"} => wk[m].obs # "absent"
    BY DEF AfterFinalizer
  <2>3. Persist(m, r, p) /\ wk[m].pc = "finalizer"
    BY <1>2 DEF AddFinalizer, At
  <2> HIDE DEF r, p
  <2> QED BY <1>1, <2>1, <2>2, <2>3, EntitledPersist
<1>3. CASE CreatePending(m)
  <2> DEFINE r == [wk[m].mr EXCEPT !.begun = TRUE]
  <2>1. r \in LiveCR /\ r.ext = wk[m].mr.ext
    BY <1>1 DEF LiveCR
  <2>2. Persist(m, r, "post")
    BY <1>3 DEF CreatePending
  <2> HIDE DEF r
  <2> QED BY <1>1, <2>1, <2>2, EntitledPersist
<1>4. CASE LateInit(m)
  <2>1. wk[m].pc = "late" /\ wk[m].obs # "absent"
    BY <1>1, <1>4 DEF LateInit, At, Owning, ObservationHolds
  <2>2. PICK p \in {"put", "idle"} : Persist(m, wk[m].mr, p)
    BY <1>4 DEF LateInit
  <2> QED BY <1>1, <2>1, <2>2, EntitledPersist
<1> QED BY <1>2, <1>3, <1>4

\* Removing the finalizer leaves no reference.
LEMMA EntitledRemoveFinalizer ==
    ASSUME DisjointImports, EntitledInv, OwnershipInv', NEW m \in UID, RemoveFinalizer(m)
    PROVE  EntitledInv'
<1>1. TypeOK /\ Entitled(m)
  BY DEF EntitledInv, OwnershipInv, OrphanInv
<1>2. /\ Return(m) /\ UNCHANGED <<owner, cache>>
      /\ cr' = cr \/ cr' = [cr EXCEPT ![m] = GoneCR]
  BY DEF RemoveFinalizer, Persist, Write
<1>3. wk'[m].pc = "idle" /\ Others(m)
  BY <1>1, <1>2, ReturnMove DEF Idle
<1>4. /\ \A n \in UID \ {m} : Untouched(n)
      /\ cr'[m] = cr[m] \/ cr'[m].phase = "gone"
  BY <1>1, <1>2, <1>3 DEF TypeOK, Untouched, Others, GoneCR
<1>5. Entitled(m)'
  BY <1>1, <1>2, <1>3, <1>4 DEF Entitled, Mine, Unstamped, Busy, Exists, Cached
<1> QED
  BY <1>2, <1>4, <1>5, EntitledQuiet

\* The reference that Create and Update patch in is that of m's own object.
LEMMA EntitledWriteName ==
    ASSUME DisjointImports, EntitledInv, OwnershipInv', NEW m \in UID,
           wk[m].pc \in {"name", "refresh"}, NEW begun, WriteExternalName(m, begun)
    PROVE  EntitledInv'
<1>1. TypeOK /\ Entitled(m) /\ Busy(m)
  BY DEF EntitledInv, OwnershipInv, OrphanInv, Busy
<1>2. wk'[m].pc = "idle" /\ Others(m) /\ UNCHANGED <<owner, cache>>
  BY <1>1, ReturnMove DEF WriteExternalName, Idle
<1>3. PICK r : /\ cr' = [cr EXCEPT ![m] = r]
               /\ r = cr[m] \/ r.ext = wk[m].mr.ext
  <2>1. CASE ~Exists(m)
    BY <1>1, <2>1 DEF WriteExternalName, TypeOK
  <2>2. CASE Exists(m)
    <3>1. cr[m] \in LiveCR
      BY <1>1, <2>2, ExistsLive DEF Exists
    <3> QED BY <2>2, <3>1 DEF WriteExternalName, Write, LiveCR
  <2> QED BY <2>1, <2>2
<1>4. cr'[m] = r /\ \A n \in UID \ {m} : Untouched(n)
  BY <1>1, <1>2, <1>3 DEF TypeOK, Untouched, Others
<1>5. Entitled(m)'
  BY <1>1, <1>2, <1>3, <1>4 DEF Entitled, Mine, Unstamped, Busy, Exists, Cached
<1> QED
  BY <1>2, <1>4, <1>5, EntitledQuiet

(***************************************************************************)
(* The calls that write to the Grid.                                       *)
(***************************************************************************)
\* POST takes a free address; PUT takes an object Observe found to be m's, or
\* one nobody has stamped and only m imports, to a free address or leaves it.
LEMMA StampSpares ==
    ASSUME EntitledInv, NEW m \in UID, Create(m) \/ CreateFails(m) \/ Update(m)
    PROVE  /\ Spares(m) /\ UNCHANGED <<cr, cache>>
           /\ \/ Return(m)
              \/ \E p \in {"name", "refresh"}, r \in LiveCR :
                   /\ Continue(m, p, r)
                   /\ r.ext \in Addr /\ owner'[r.ext] = NoStamp => r.ext \in Imports[m]
<1> DEFINE r == wk[m].mr
           q == [r EXCEPT !.ext = r.addr]
<1>1. TypeOK /\ Owning(m) /\ Entitled(m) /\ wk[m].pc \in {"post", "put"} /\ r \in LiveCR
  BY WorkingAt
     DEF EntitledInv, OwnershipInv, OrphanInv, Create, CreateFails, Update, At
<1>2. q \in LiveCR /\ q.ext = r.addr /\ r.addr \in Addr
  BY <1>1 DEF LiveCR
<1>3. CASE Create(m) \/ CreateFails(m)
  <2>1. Created(m) \/ owner' = owner
    BY <1>3 DEF Create, CreateFails
  <2>2. Created(m) => /\ owner[r.addr] = Absent /\ owner'[r.addr] = m
                      /\ \A a \in Addr \ {r.addr} : owner'[a] = owner[a]
    BY <1>1, CreatedMove
  <2> HIDE DEF r
  <2>3. Spares(m) /\ \A a \in Addr : owner'[a] = NoStamp => owner[a] = NoStamp
    BY <2>1, <2>2, IdentityConstants DEF Spares
  <2> USE DEF r
  <2>4. CASE Create(m)
    <3>1. Continue(m, "name", q) /\ UNCHANGED <<cr, cache>> /\ owner'[r.addr] = m
      BY <2>2, <2>4 DEF Create
    <3> HIDE DEF q
    <3>2. owner'[q.ext] # NoStamp
      BY <1>2, <3>1, IdentityConstants
    <3> QED BY <1>2, <2>3, <3>1, <3>2
  <2>5. CASE CreateFails(m)
    <3>1. Continue(m, "name", r) /\ UNCHANGED <<cr, cache>>
      BY <2>5 DEF CreateFails
    <3>2. r.ext \in Addr /\ owner'[r.ext] = NoStamp => r.ext \in Imports[m]
      BY <1>1, <2>3 DEF Unstamped, Entitled, Busy
    <3> QED BY <1>1, <2>3, <3>1, <3>2
  <2> QED BY <1>3, <2>4, <2>5
<1>4. CASE Update(m)
  <2>1. CASE isNotFound(owner, r.ext) \/ (r.addr # r.ext /\ owner[r.addr] # Absent)
    BY <1>4, <2>1 DEF Update, Spares
  <2>2. CASE ~(isNotFound(owner, r.ext) \/ (r.addr # r.ext /\ owner[r.addr] # Absent))
    <3>1. /\ owner' = [owner EXCEPT ![r.ext] = Absent, ![r.addr] = m]
          /\ Return(m) \/ Continue(m, "refresh", q)
      BY <1>4, <2>2 DEF Update
    <3>2. r.ext \in Addr /\ Mine(m, r.ext)
      BY <1>1, <1>4 DEF Update, At, Owning, ObservationHolds, Entitled
    <3>3. /\ owner'[r.addr] = m
          /\ \A a \in Addr \ {r.addr} :
               owner'[a] = IF a = r.ext THEN Absent ELSE owner[a]
      BY <1>1, <1>2, <3>1, <3>2 DEF TypeOK
    <3> HIDE DEF q
    <3>4. Spares(m)
      BY <2>2, <3>2, <3>3 DEF Spares
    <3>5. owner'[q.ext] # NoStamp
      BY <1>2, <3>3, IdentityConstants
    <3> QED BY <1>2, <1>4, <3>1, <3>4, <3>5 DEF Update
  <2> QED BY <2>1, <2>2
<1> QED BY <1>3, <1>4

\* After Create and Update the object is m's.
LEMMA EntitledStamp ==
    ASSUME DisjointImports, EntitledInv, OwnershipInv', NEW m \in UID,
           Create(m) \/ CreateFails(m) \/ Update(m)
    PROVE  EntitledInv'
<1>1. TypeOK /\ Entitled(m) /\ wk[m] \in Working
  BY WorkingAt
     DEF EntitledInv, OwnershipInv, OrphanInv, Create, CreateFails, Update, At
<1>2. Spares(m) /\ UNCHANGED <<cr, cache>>
  BY StampSpares
<1>3. CASE Return(m)
  BY <1>2, <1>3, EntitledReturn
<1>4. ASSUME NEW p \in {"name", "refresh"}, NEW r \in LiveCR, Continue(m, p, r),
             r.ext \in Addr /\ owner'[r.ext] = NoStamp => r.ext \in Imports[m]
      PROVE  EntitledInv'
  <2>1. p \in PCs
    BY DEF PCs
  <2>2. wk'[m].pc = p /\ wk'[m].mr = r /\ Others(m)
    BY <1>1, <1>4, <2>1, ContinueMove
  <2>3. \A n \in UID \ {m} : Untouched(n)
    BY <1>2, <2>2 DEF Untouched, Others
  <2>4. \A a \in Addr : owner'[a] = NoStamp => owner[a] = NoStamp
    BY <1>2, IdentityConstants DEF Spares
  <2>5. Entitled(m)'
    BY <1>1, <1>2, <1>4, <2>2, <2>4, IdentityConstants
       DEF Entitled, Mine, Unstamped, Busy, Exists, Cached
  <2> QED BY <1>2, <2>3, <2>5, EntitledLift
<1> QED BY <1>3, <1>4, StampSpares

\* Delete goes on to DELETE only with the reference of an object stamped with m.
LEMMA EntitledResolve ==
    ASSUME DisjointImports, EntitledInv, OwnershipInv', NEW m \in UID,
           DeleteGet(m) \/ DeleteSearch(m)
    PROVE  EntitledInv'
<1>1. /\ TypeOK /\ Guarded(m) /\ Entitled(m) /\ wk[m] \in Working /\ Busy(m)
      /\ wk[m].mr \in LiveCR
  BY WorkingAt DEF EntitledInv, OwnershipInv, OrphanInv, DeleteGet, DeleteSearch, At, Busy
<1>2. UNCHANGED <<owner, cr, cache>> /\ Spares(m)
  BY DEF DeleteGet, DeleteSearch, Spares
<1>3. CASE Return(m)
  BY <1>2, <1>3, EntitledReturn
<1>4. ASSUME NEW p \in {"dsearch", "delete"}, NEW r \in LiveCR, Continue(m, p, r),
             Unstamped(r.ext) => r.ext \in Imports[m],
             p = "delete" => r.ext \in Addr /\ owner[r.ext] = m
      PROVE  EntitledInv'
  <2>1. p \in PCs
    BY DEF PCs
  <2>2. /\ Others(m) /\ wk'[m].pc \in {"idle", p}
        /\ wk'[m].pc # "idle" => wk'[m].mr = r
    BY <1>1, <1>4, <2>1, WorkMove
  <2> QED BY <1>2, <1>4, <2>2, EntitledMove
<1>5. CASE DeleteGet(m)
  <2> DEFINE o == resolveByRef(owner, wk[m].mr.ext, m)
  <2>1. Unstamped(wk[m].mr.ext) => wk[m].mr.ext \in Imports[m]
    BY <1>1 DEF Entitled
  <2>2. CASE o = "Search"
    <3>1. Continue(m, "dsearch", wk[m].mr)
      BY <1>5, <2>2 DEF DeleteGet
    <3> QED BY <1>1, <1>4, <2>1, <3>1
  <2>3. CASE o = "Resolved"
    <3>1. Continue(m, "delete", wk[m].mr) /\ owner[wk[m].mr.ext] = m
      BY <1>5, <2>3 DEF DeleteGet, resolveByRef
    <3>2. wk[m].mr.ext \in Addr
      BY <1>1, <1>5 DEF DeleteGet, At, Entitled
    <3> QED BY <1>1, <1>4, <2>1, <3>1, <3>2
  <2>4. CASE o \notin {"Search", "Resolved"}
    BY <1>3, <1>5, <2>4 DEF DeleteGet
  <2> QED BY <2>2, <2>3, <2>4
<1>6. CASE DeleteSearch(m)
  <2>1. ASSUME NEW a \in searchByUID(owner, m),
               Continue(m, "delete", [wk[m].mr EXCEPT !.ext = a])
        PROVE  EntitledInv'
    <3> DEFINE r == [wk[m].mr EXCEPT !.ext = a]
    <3>1. a \in Addr /\ owner[a] = m
      BY DEF searchByUID
    <3>2. r \in LiveCR /\ r.ext = a /\ Continue(m, "delete", r)
      BY <1>1, <2>1, <3>1 DEF LiveCR
    <3> HIDE DEF r
    <3>3. ~Unstamped(a)
      BY <3>1, IdentityConstants DEF Unstamped
    <3> QED BY <1>4, <3>1, <3>2, <3>3
  <2> QED BY <1>3, <1>6, <2>1 DEF DeleteSearch
<1> QED BY <1>5, <1>6

\* DELETE names a reference that was verified to be m's.
LEMMA DeleteSpares ==
    ASSUME EntitledInv, NEW m \in UID, Delete(m) PROVE Spares(m)
<1>1. TypeOK /\ wk[m].mr.ext \in Addr /\ owner[wk[m].mr.ext] = m
  BY DEF EntitledInv, OwnershipInv, OrphanInv, Entitled, Delete, At
<1>2. \A a \in Addr : owner'[a] = IF a = wk[m].mr.ext THEN Absent ELSE owner[a]
  BY <1>1 DEF Delete, TypeOK
<1> QED
  BY <1>1, <1>2 DEF Spares, Mine

-----------------------------------------------------------------------------
\* Initially there are no managed resources.
LEMMA EntitledInit == Init => EntitledInv
<1> SUFFICES ASSUME Init PROVE EntitledInv
  OBVIOUS
<1>1. ASSUME NEW m \in UID PROVE Entitled(m)
  <2>1. cr[m] = NoCR /\ cache[m] = NoCR /\ wk[m] = Idle
    BY DEF Init
  <2> QED
    BY <2>1 DEF Entitled, Busy, Exists, Cached, NoCR, Idle
<1> QED
  BY <1>1, OwnershipInit DEF EntitledInv

\* The invariant is inductive: one lemma per action.
LEMMA EntitledNext ==
    NoAdmins /\ DisjointImports /\ EntitledInv /\ [Next]_vars => EntitledInv'
<1> SUFFICES ASSUME NoAdmins, DisjointImports, EntitledInv, [Next]_vars
             PROVE  EntitledInv'
  OBVIOUS
<1>0. OwnershipInv' /\ ~Admin
  BY OwnershipNext DEF EntitledInv, NoAdmins, OnlyDeletes, Admin
<1>1. CASE UNCHANGED vars
  BY <1>0, <1>1 DEF vars, EntitledInv, Entitled, Mine, Unstamped, Busy, Exists, Cached
<1>2. ASSUME NEW m \in UID, User(m) \/ Sync(m) \/ Abort(m) PROVE EntitledInv'
  <2>1. CASE Abort(m)
    BY <1>0, <2>1, EntitledReturn DEF Abort, Spares
  <2> QED BY <1>0, <1>2, <2>1, EntitledUser, EntitledSync
<1>3. ASSUME NEW m \in UID, Reconcile(m) PROVE EntitledInv'
  <2>1. CASE Delete(m)
    BY <1>0, <2>1, DeleteSpares, EntitledReturn DEF Delete
  <2> QED
    BY <1>0, <1>3, <2>1, EntitledBegin, EntitledObserveGet, EntitledObserveSearch,
       EntitledRuntime, EntitledRemoveFinalizer, EntitledStamp, EntitledWriteName,
       EntitledResolve
       DEF Reconcile, UpdateCriticalAnnotations, Refresh, At
<1> QED
  BY <1>0, <1>1, <1>2, <1>3 DEF Next

\* Every step of n leaves what m # n owns alone.
LEMMA OwnerOnlyStep ==
    ASSUME NoAdmins, EntitledInv, Next, NEW m \in UID, NEW n \in UID, m # n,
           wk'[n] # wk[n]
    PROVE  Owned(m)' = Owned(m)
<1>1. TypeOK
  BY DEF EntitledInv, OwnershipInv, OrphanInv
<1>2. CASE owner' = owner
  BY <1>2 DEF Owned
<1>3. ASSUME NEW k \in UID, Create(k) \/ CreateFails(k) \/ Update(k) \/ Delete(k)
      PROVE  Owned(m)' = Owned(m)
  <2>1. Spares(k)
    BY <1>3, StampSpares, DeleteSpares
  <2>2. wk' = [wk EXCEPT ![k] = wk'[k]]
    BY <1>1, <1>3 DEF Create, CreateFails, Update, Delete, Return, Continue, TypeOK
  <2>3. k = n
    BY <1>1, <2>2 DEF TypeOK
  <2> QED
    BY <2>1, <2>3, IdentityConstants DEF Spares, Mine, Owned, searchByUID
<1>4. \/ owner' = owner
      \/ \E k \in UID : Create(k) \/ CreateFails(k) \/ Update(k) \/ Delete(k)
  BY DEF Next, NoAdmins, Admin, User, NewRecord, EditSpec, DeleteCR, Unblock, Sync, Abort,
     Reconcile, Begin, ObserveGet, ObserveSearch, AddFinalizer, CreatePending, LateInit,
     RemoveFinalizer, UpdateCriticalAnnotations, Refresh, WriteExternalName, DeleteGet,
     DeleteSearch
<1> QED
  BY <1>2, <1>3, <1>4

\* When nobody works behind the provider's back and no two managed resources
\* import the same object, no reconcile ever restamps, moves or destroys an
\* object of another managed resource, although Update's PUT and Delete's
\* DELETE act on references that were verified earlier.
THEOREM OwnerOnlyHolds == NoAdmins /\ DisjointImports => (Spec => OwnerOnly)
<1> SUFFICES ASSUME NoAdmins, DisjointImports PROVE Spec => OwnerOnly
  OBVIOUS
<1>1. EntitledInv /\ [Next]_vars => EntitledInv'
  BY EntitledNext
<1>2. EntitledInv /\ [Next]_vars
        => [\A m, n \in UID : m # n /\ wk'[n] # wk[n] => Owned(m)' = Owned(m)]_vars
  BY OwnerOnlyStep
<1> QED
  BY <1>1, <1>2, EntitledInit, PTL DEF Spec, OwnerOnly

-----------------------------------------------------------------------------
(***************************************************************************)
(* Implements: the reconciles of ARecord implement Ownership.              *)
(*                                                                         *)
(* The calls that write to the Grid map to Claim, Take and Release, the    *)
(* two that write a finalizer to Join and Leave, and every other step      *)
(* stutters.                                                               *)
(***************************************************************************)
Tenant(m) == Exists(m) /\ cr[m].fin

\* A write to m's managed resource changes at most whether m is a tenant.
LEMMA TenantsMove ==
    ASSUME NEW m \in UID, \A n \in UID \ {m} : cr'[n] = cr[n]
    PROVE  /\ Tenant(m)' <=> Tenant(m) => Tenants' = Tenants
           /\ Tenant(m)' /\ ~Tenant(m) => m \notin Tenants /\ Tenants' = Tenants \cup {m}
           /\ Tenant(m) /\ ~Tenant(m)' => m \in Tenants /\ Tenants' = Tenants \ {m}
  BY DEF Tenants, Tenant, Exists

\* Steps that write neither to the Grid nor to the API server.
LEMMA AsideStutters ==
    ASSUME NEW m \in UID,
           \/ Sync(m) \/ Abort(m) \/ Begin(m) \/ ObserveGet(m) \/ ObserveSearch(m)
           \/ DeleteGet(m) \/ DeleteSearch(m)
    PROVE  UNCHANGED Tenancy!vars
<1>1. UNCHANGED <<owner, cr>>
  BY DEF Sync, Abort, Begin, ObserveGet, ObserveSearch, DeleteGet, DeleteSearch
<1> QED
  BY <1>1 DEF Tenancy!vars, Tenants, Exists

\* Users neither set nor take away a finalizer.
LEMMA UserStutters ==
    ASSUME EntitledInv, NEW m \in UID, User(m)
    PROVE  UNCHANGED Tenancy!vars
<1>1. TypeOK /\ owner' = owner
  BY DEF EntitledInv, OwnershipInv, OrphanInv, User, NewRecord, EditSpec, DeleteCR, Unblock
<1>2. /\ \A n \in UID \ {m} : cr'[n] = cr[n]
      /\ Tenant(m)' <=> Tenant(m)
  <2>1. CASE NewRecord(m)
    BY <1>1, <2>1 DEF NewRecord, Write, NoCR, Tenant, Exists, TypeOK
  <2>2. CASE EditSpec(m) \/ DeleteCR(m) \/ Unblock(m)
    <3>1. cr[m].fin \in BOOLEAN
      BY <1>1, <2>2, UserWrite DEF LiveCR
    <3> QED
      BY <1>1, <2>2, <3>1, UserWrite DEF Tenant, Exists
  <2> QED BY <2>1, <2>2 DEF User
<1> QED
  BY <1>1, <1>2, TenantsMove DEF Tenancy!vars

\* The annotations are written beside the finalizer.
LEMMA NameStutters ==
    ASSUME EntitledInv, NEW m \in UID, wk[m].pc \in {"name", "refresh"},
           NEW begun, WriteExternalName(m, begun)
    PROVE  UNCHANGED Tenancy!vars
<1>1. TypeOK /\ owner' = owner /\ wk[m].mr \in LiveCR
  BY WorkingAt DEF EntitledInv, OwnershipInv, OrphanInv, WriteExternalName
<1>2. /\ \A n \in UID \ {m} : cr'[n] = cr[n]
      /\ Tenant(m)' <=> Tenant(m)
  <2>1. CASE ~Exists(m)
    BY <1>1, <2>1 DEF WriteExternalName, TypeOK, Tenant, Exists
  <2>2. CASE Exists(m)
    <3> DEFINE r == [cr[m] EXCEPT !.ext = wk[m].mr.ext, !.begun = begun]
    <3>1. cr[m] \in LiveCR
      BY <1>1, <2>2, ExistsLive DEF Exists
    <3>2. r.phase = cr[m].phase /\ r.fin = cr[m].fin
      BY <3>1 DEF LiveCR
    <3>3. cr' = [cr EXCEPT ![m] = r]
      BY <2>2 DEF WriteExternalName, Write
    <3> HIDE DEF r
    <3> QED
      BY <1>1, <3>2, <3>3 DEF TypeOK, Tenant, Exists
  <2> QED BY <2>1, <2>2
<1> QED
  BY <1>1, <1>2, TenantsMove DEF Tenancy!vars

\* A whole-object write is of a copy with the finalizer the resource has, or adds it.
LEMMA RuntimeJoins ==
    ASSUME EntitledInv, NEW m \in UID,
           AddFinalizer(m) \/ CreatePending(m) \/ LateInit(m)
    PROVE  [Tenancy!Next]_(Tenancy!vars)
<1>1. /\ TypeOK /\ Guarded(m) /\ owner' = owner
      /\ wk[m].pc \in {"finalizer", "pending", "late"}
  BY DEF EntitledInv, OwnershipInv, OrphanInv, AddFinalizer, CreatePending, LateInit, At
<1>2. wk[m] \in Working /\ wk[m].mr \in LiveCR /\ wk[m].fresh \in BOOLEAN /\ Busy(m)
  BY <1>1, WorkingAt, WorkingUpdate DEF Busy
<1>3. PICK r \in LiveCR, p \in PCs \cup {"idle"} :
        /\ Persist(m, r, p) /\ r.phase = wk[m].mr.phase /\ (wk[m].mr.fin => r.fin)
  <2>1. CASE AddFinalizer(m)
    <3> DEFINE r == [wk[m].mr EXCEPT !.fin = TRUE]
               p == AfterFinalizer(wk[m].obs, wk[m].late)
    <3>1. r \in LiveCR /\ r.phase = wk[m].mr.phase /\ r.fin
      BY <1>2 DEF LiveCR
    <3>2. p \in PCs \cup {"idle"}
      BY DEF AfterFinalizer, PCs
    <3>3. Persist(m, r, p)
      BY <2>1 DEF AddFinalizer
    <3> HIDE DEF r, p
    <3> QED BY <3>1, <3>2, <3>3
  <2>2. CASE CreatePending(m)
    <3> DEFINE r == [wk[m].mr EXCEPT !.begun = TRUE]
    <3>1. r \in LiveCR /\ r.phase = wk[m].mr.phase /\ r.fin = wk[m].mr.fin
      BY <1>2 DEF LiveCR
    <3>2. Persist(m, r, "post")
      BY <2>2 DEF CreatePending
    <3> HIDE DEF r
    <3> QED BY <3>1, <3>2 DEF PCs
  <2>3. CASE LateInit(m)
    BY <1>2, <2>3 DEF LateInit, PCs
  <2> QED BY <2>1, <2>2, <2>3
<1>4. /\ cr'[m] = IF wk[m].fresh THEN r ELSE cr[m]
      /\ \A n \in UID \ {m} : cr'[n] = cr[n]
  BY <1>1, <1>2, <1>3, PersistMove
<1>5. Tenant(m) => Tenant(m)'
  BY <1>1, <1>2, <1>3, <1>4 DEF Tenant, Exists, LiveCR, Guarded, CopiesLag
<1>6. CASE Tenant(m)
  BY <1>1, <1>4, <1>5, <1>6, TenantsMove DEF Tenancy!vars
<1>7. CASE ~Tenant(m) /\ ~Tenant(m)'
  BY <1>1, <1>4, <1>7, TenantsMove DEF Tenancy!vars
<1>8. CASE ~Tenant(m) /\ Tenant(m)'
  BY <1>1, <1>4, <1>8, TenantsMove DEF Tenancy!Next, Tenancy!Join
<1> QED BY <1>6, <1>7, <1>8

\* The finalizer comes off when the search has found nothing.
LEMMA RemovalLeaves ==
    ASSUME EntitledInv, NEW m \in UID, RemoveFinalizer(m)
    PROVE  [Tenancy!Next]_(Tenancy!vars)
<1>1. TypeOK /\ Owned(m) = {} /\ owner' = owner
  BY DEF EntitledInv, OwnershipInv, OrphanInv, Guarded, FinalizerGuards, RemoveFinalizer, At
<1>2. cr' = cr \/ cr' = [cr EXCEPT ![m] = GoneCR]
  BY DEF RemoveFinalizer, Persist, Write
<1>3. (\A n \in UID \ {m} : cr'[n] = cr[n]) /\ (Tenant(m)' => Tenant(m))
  BY <1>1, <1>2 DEF TypeOK, Tenant, Exists, GoneCR
<1>4. CASE Tenant(m) /\ ~Tenant(m)'
  BY <1>1, <1>3, <1>4, TenantsMove
     DEF Tenancy!Next, Tenancy!Leave, Tenancy!Holdings, Owned, searchByUID
<1>5. CASE Tenant(m)' <=> Tenant(m)
  BY <1>1, <1>3, <1>5, TenantsMove DEF Tenancy!vars
<1> QED BY <1>3, <1>4, <1>5

\* The POST is a Claim, the PUT a Take.
LEMMA StampTakes ==
    ASSUME EntitledInv, NEW m \in UID, Create(m) \/ CreateFails(m) \/ Update(m)
    PROVE  [Tenancy!Next]_(Tenancy!vars)
<1>1. /\ TypeOK /\ Guarded(m) /\ Owning(m) /\ Entitled(m)
      /\ wk[m].pc \in {"post", "put"} /\ cr' = cr
  BY DEF EntitledInv, OwnershipInv, OrphanInv, Create, CreateFails, Update, At
<1>2. wk[m].mr \in LiveCR /\ wk[m].mr.addr \in Addr /\ Busy(m)
  BY <1>1, WorkingAt DEF LiveCR, Busy
<1>3. m \in Tenants /\ Tenants' = Tenants
  BY <1>1, <1>2 DEF Tenants, Exists, Guarded, StageFits, FinalizerHolds
<1>4. CASE owner' = owner
  BY <1>3, <1>4 DEF Tenancy!vars
<1>5. CASE (Create(m) \/ CreateFails(m)) /\ owner' # owner
  <2>1. owner[wk[m].mr.addr] = Absent /\ owner' = [owner EXCEPT ![wk[m].mr.addr] = m]
    BY <1>5 DEF Create, CreateFails, Created
  <2>2. Tenancy!Holdings(m) = {}
    BY <1>1, <1>5 DEF Create, CreateFails, At, Owning, ObservationHolds, Owned, searchByUID,
       Tenancy!Holdings
  <2> QED
    BY <1>2, <1>3, <1>5, <2>1, <2>2 DEF Tenancy!Next, Tenancy!Claim
<1>6. CASE Update(m) /\ owner' # owner
  <2>1. /\ wk[m].mr.ext \in Addr /\ Mine(m, wk[m].mr.ext)
        /\ Owned(m) \subseteq {wk[m].mr.ext}
    BY <1>1, <1>6 DEF Update, At, Owning, ObservationHolds, Entitled
  <2>2. /\ wk[m].mr.addr = wk[m].mr.ext \/ owner[wk[m].mr.addr] = Absent
        /\ owner' = [owner EXCEPT ![wk[m].mr.ext] = Absent, ![wk[m].mr.addr] = m]
    BY <1>6 DEF Update
  <2>3. owner[wk[m].mr.ext] = NoStamp => Tenancy!Holdings(m) = {}
    BY <2>1, IdentityConstants DEF Owned, searchByUID, Tenancy!Holdings
  <2>4. Tenancy!Take(m, wk[m].mr.ext, wk[m].mr.addr)
    BY <1>3, <2>1, <2>2, <2>3 DEF Tenancy!Take, Mine
  <2> QED
    BY <1>2, <1>6, <2>1, <2>4 DEF Tenancy!Next
<1> QED BY <1>4, <1>5, <1>6

\* The DELETE is a Release: what it destroys is m's, under m's finalizer.
LEMMA DeleteReleases ==
    ASSUME EntitledInv, NEW m \in UID, Delete(m)
    PROVE  [Tenancy!Next]_(Tenancy!vars)
<1>1. /\ TypeOK /\ Guarded(m) /\ Entitled(m) /\ wk[m].pc = "delete" /\ cr' = cr
      /\ owner' = [owner EXCEPT ![wk[m].mr.ext] = Absent]
  BY DEF EntitledInv, OwnershipInv, OrphanInv, Delete, At
<1>2. wk[m].mr.ext \in Addr /\ owner[wk[m].mr.ext] = m
  BY <1>1 DEF Entitled
<1>3. m \in Tenants /\ Tenants' = Tenants
  BY <1>1, <1>2 DEF Tenants, Exists, Guarded, FinalizerGuards, Owned, searchByUID
<1>4. owner' # owner
  BY <1>1, <1>2, IdentityConstants DEF TypeOK
<1> QED
  BY <1>1, <1>2, <1>3, <1>4 DEF Tenancy!Next, Tenancy!Release

LEMMA TenancyInit == Init => Tenancy!Init
  BY IdentityConstants DEF Init, Tenancy!Init, Tenants, Exists, NoCR

LEMMA TenancyNext ==
    NoAdmins /\ EntitledInv /\ [Next]_vars => [Tenancy!Next]_(Tenancy!vars)
<1> SUFFICES ASSUME NoAdmins, EntitledInv, [Next]_vars
             PROVE  [Tenancy!Next]_(Tenancy!vars)
  OBVIOUS
<1>0. ~Admin
  BY DEF NoAdmins, Admin
<1>1. CASE UNCHANGED vars
  BY <1>1 DEF vars, Tenancy!vars, Tenants, Exists
<1>2. ASSUME NEW m \in UID, User(m) \/ Sync(m) \/ Abort(m)
      PROVE  [Tenancy!Next]_(Tenancy!vars)
  BY <1>2, UserStutters, AsideStutters
<1>3. ASSUME NEW m \in UID, Reconcile(m) PROVE [Tenancy!Next]_(Tenancy!vars)
  <2>1. CASE UpdateCriticalAnnotations(m) \/ Refresh(m)
    BY <2>1, NameStutters DEF UpdateCriticalAnnotations, Refresh, At
  <2> QED
    BY <1>3, <2>1, AsideStutters, RuntimeJoins, RemovalLeaves, StampTakes, DeleteReleases
       DEF Reconcile
<1> QED
  BY <1>0, <1>1, <1>2, <1>3 DEF Next

\* When nobody works behind the provider's back and no two managed resources import
\* the same object, the reconciles of any number of resources, with their stale
\* copies, conflicts and crashes, implement Ownership: stamps are set only under a
\* finalizer and by a resource that holds nothing else, only what is its own is moved or
\* destroyed, and the finalizer comes off when nothing is held.
THEOREM ImplementsHolds == NoAdmins /\ DisjointImports => (Spec => Implements)
<1> SUFFICES ASSUME NoAdmins, DisjointImports PROVE Spec => Implements
  OBVIOUS
<1>1. EntitledInv /\ [Next]_vars => EntitledInv'
  BY EntitledNext
<1>2. EntitledInv /\ [Next]_vars => [Tenancy!Next]_(Tenancy!vars)
  BY TenancyNext
<1> QED
  BY <1>1, <1>2, EntitledInit, TenancyInit, PTL DEF Spec, Implements, Tenancy!Spec
==============================================================================
