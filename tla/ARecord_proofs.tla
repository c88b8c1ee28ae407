---------------------------- MODULE ARecord_proofs ----------------------------
(***************************************************************************)
(* TypeOK and NoOrphan, whatever administrators, users and failures do.    *)
(*                                                                         *)
(* NoOrphan needs to know that a stamp is only written for a resource      *)
(* whose finalizer is on, although Create and Update work on a copy that   *)
(* may be older than the API server's: CopiesLag orders the three copies   *)
(* of a managed resource and FinalizerHolds carries the finalizer from an  *)
(* older copy to a newer one (Guarded).                                    *)
(***************************************************************************)
EXTENDS ARecord, TLAPS

(***************************************************************************)
(* Typing of the records the actions update.                               *)
(***************************************************************************)
\* A reconcile under way has a copy, and a call to make.
LEMMA WorkingAt ==
    ASSUME TypeOK, NEW m \in UID, wk[m].pc # "idle"
    PROVE  wk[m] \in Working /\ wk[m].mr \in LiveCR /\ wk[m].pc \in PCs
  BY DEF TypeOK, Idle, Working

\* A managed resource that is live or being deleted has all of its fields.
LEMMA ExistsLive ==
    ASSUME TypeOK, NEW m \in UID
    PROVE  /\ cr[m].phase \in {"live", "deleting"} => cr[m] \in LiveCR
           /\ cache[m].phase \in {"live", "deleting"} => cache[m] \in LiveCR
  BY DEF TypeOK, CRs, NoCR, GoneCR

\* The copies that late initialisation, the finalizer and a new reference make
\* of a managed resource are managed resources.
LEMMA LiveUpdate ==
    ASSUME NEW r \in LiveCR
    PROVE  /\ r.ext \in Addr \cup {NoRef} /\ r.addr \in Addr
           /\ r.val \in Val \cup {Nil} /\ r.fin \in BOOLEAN /\ r.begun \in BOOLEAN
           /\ r.phase \in {"live", "deleting"}
           /\ [r EXCEPT !.fin = TRUE] \in LiveCR
           /\ \A b \in BOOLEAN : [r EXCEPT !.begun = b] \in LiveCR
           /\ [r EXCEPT !.phase = "deleting"] \in LiveCR
           /\ \A a \in Addr : [r EXCEPT !.ext = a] \in LiveCR
           /\ \A a \in Addr, v \in Val \cup {Nil} :
                [r EXCEPT !.addr = a, !.val = v] \in LiveCR
           /\ \A e \in Addr \cup {NoRef}, v \in Val \cup {Nil} :
                [r EXCEPT !.val = v, !.ext = e] \in LiveCR
  BY DEF LiveCR

\* A reconcile that goes on to its next call is a reconcile.
LEMMA WorkingUpdate ==
    ASSUME NEW w \in Working
    PROVE  /\ w.mr \in LiveCR
           /\ w.obs \in {"none", "absent", "synced", "drift"}
           /\ w.late \in BOOLEAN
           /\ w.fresh \in BOOLEAN
           /\ w.pc \in PCs
           /\ w # Idle
  BY DEF Working, Idle, PCs

\* Spending one of the bounds leaves a natural number.
LEMMA SpendTyped ==
    ASSUME TypeOK, NEW k \in {"edit", "abort", "admin"}, Spend(k)
    PROVE  left' \in [{"edit", "abort", "admin"} -> Nat]
  BY DEF TypeOK, Spend

(***************************************************************************)
(* What the reconcile's own moves do to wk, point by point.                *)
(***************************************************************************)
Others(m) == \A n \in UID \ {m} : wk'[n] = wk[n]

\* Return ends the reconcile of m and no other.
LEMMA ReturnMove ==
    ASSUME TypeOK, NEW m \in UID, Return(m)
    PROVE  /\ wk' \in [UID -> Working \cup {Idle}]
           /\ wk'[m] = Idle
           /\ Others(m)
  BY DEF TypeOK, Return, Others

\* Continue changes the next call and the copy of m's reconcile, nothing else.
LEMMA ContinueMove ==
    ASSUME TypeOK, NEW m \in UID, NEW p \in PCs, NEW r \in LiveCR,
           wk[m] \in Working, Continue(m, p, r)
    PROVE  /\ wk' \in [UID -> Working \cup {Idle}]
           /\ wk'[m] = [wk[m] EXCEPT !.pc = p, !.mr = r]
           /\ wk'[m].pc = p /\ wk'[m].mr = r
           /\ wk'[m].fresh = wk[m].fresh /\ wk'[m].obs = wk[m].obs
           /\ wk'[m].late = wk[m].late
           /\ Others(m)
<1>1. wk' = [wk EXCEPT ![m] = [wk[m] EXCEPT !.pc = p, !.mr = r]]
  BY DEF Continue, TypeOK
<1> DEFINE w == [wk[m] EXCEPT !.pc = p, !.mr = r]
<1>2. /\ w \in Working /\ w.pc = p /\ w.mr = r /\ w.fresh = wk[m].fresh
      /\ w.obs = wk[m].obs /\ w.late = wk[m].late
  BY DEF Working
<1> HIDE DEF w
<1> QED
  BY <1>1, <1>2 DEF TypeOK, Others, w

\* A write by somebody else only costs a reconcile its resourceVersion.
LEMMA OutdateMove ==
    ASSUME TypeOK, NEW m \in UID, Outdate(m)
    PROVE  /\ wk' \in [UID -> Working \cup {Idle}]
           /\ wk'[m].pc = wk[m].pc
           /\ Busy(m) => /\ wk'[m] \in Working
                         /\ wk'[m].mr = wk[m].mr /\ wk'[m].fresh = FALSE
                         /\ wk'[m].obs = wk[m].obs /\ wk'[m].late = wk[m].late
           /\ Others(m)
<1>1. CASE wk[m] = Idle
  BY <1>1 DEF TypeOK, Outdate, Others, Busy, Idle
<1>2. CASE wk[m] # Idle
  <2> DEFINE w == [wk[m] EXCEPT !.fresh = FALSE]
  <2>1. wk[m] \in Working
    BY <1>2 DEF TypeOK
  <2>2. /\ w \in Working /\ w.pc = wk[m].pc /\ w.mr = wk[m].mr /\ w.fresh = FALSE
        /\ w.obs = wk[m].obs /\ w.late = wk[m].late
    BY <2>1 DEF Working
  <2>3. wk' = [wk EXCEPT ![m] = w]
    BY <1>2 DEF Outdate, TypeOK
  <2> HIDE DEF w
  <2> QED
    BY <2>2, <2>3 DEF TypeOK, Others
<1> QED
  BY <1>1, <1>2

\* After Observe the runtime goes to the call AfterObserve names, with the copy r.
LEMMA ReportMove ==
    ASSUME TypeOK, NEW m \in UID, wk[m] \in Working, NEW r \in LiveCR,
           NEW o \in {"absent", "synced", "drift"}, NEW l \in BOOLEAN,
           Report(m, r, o, l)
    PROVE  /\ wk' \in [UID -> Working \cup {Idle}]
           /\ wk'[m].pc = AfterObserve(r, o, l)
           /\ wk'[m].pc # "idle" =>
                /\ wk'[m].mr = r /\ wk'[m].obs = o /\ wk'[m].late = l
                /\ wk'[m].fresh = wk[m].fresh
           /\ Others(m)
<1> DEFINE p == AfterObserve(r, o, l)
           w == [wk[m] EXCEPT !.pc = p, !.mr = r, !.obs = o, !.late = l]
<1>1. p \in PCs \cup {"idle"}
  BY LiveUpdate DEF AfterObserve, AfterFinalizer, PCs
<1>2. wk' = [wk EXCEPT ![m] = IF p = "idle" THEN Idle ELSE w]
  BY DEF Report, TypeOK
<1> HIDE DEF p
<1>3. p # "idle" => /\ w \in Working /\ w.pc = p /\ w.mr = r /\ w.obs = o
                    /\ w.late = l /\ w.fresh = wk[m].fresh
  BY <1>1 DEF Working
<1> HIDE DEF w
<1>4. /\ wk' \in [UID -> Working \cup {Idle}]
      /\ wk'[m] = IF p = "idle" THEN Idle ELSE w
      /\ Others(m)
  BY <1>2, <1>3 DEF TypeOK, Others
<1>5. wk'[m].pc = p
  BY <1>3, <1>4 DEF Idle
<1> QED
  BY <1>3, <1>4, <1>5 DEF p

(***************************************************************************)
(* Observe found an object: the reference is the address it was found at.  *)
(***************************************************************************)
LEMMA ObservedMove ==
    ASSUME TypeOK, NEW m \in UID, wk[m] \in Working, NEW a \in Addr,
           NEW o \in Outcome, Observed(m, a, o),
           o \in {"Rotated", "FoundByUID"} \/ wk[m].mr.ext = a
    PROVE  \E r \in LiveCR, b \in {"synced", "drift"}, l \in BOOLEAN :
             /\ wk' \in [UID -> Working \cup {Idle}]
             /\ wk'[m].pc = AfterObserve(r, b, l)
             /\ wk'[m].pc # "idle" =>
                  /\ wk'[m].mr = r /\ wk'[m].obs = b /\ wk'[m].late = l
                  /\ wk'[m].fresh = wk[m].fresh
             /\ Others(m)
             /\ r.phase = wk[m].mr.phase /\ r.fin = wk[m].mr.fin
             /\ r.ext = a /\ r.addr = wk[m].mr.addr
<1> DEFINE r0 == wk[m].mr
           moved == o \in {"Rotated", "FoundByUID"}
           v == lateInitialize(r0.val, data[a])
           r == [r0 EXCEPT !.val = v, !.ext = IF moved THEN a ELSE @]
           b == IF isUpToDate(r, a) /\ o # "Adopted" THEN "synced" ELSE "drift"
           l == moved \/ v # r0.val
<1>1. r0 \in LiveCR /\ v \in Val \cup {Nil}
  BY WorkingUpdate, LiveUpdate DEF lateInitialize, TypeOK
<1>2. /\ r \in LiveCR /\ r.phase = r0.phase /\ r.fin = r0.fin
      /\ r.ext = a /\ r.addr = r0.addr
  BY <1>1 DEF LiveCR
<1>3. Report(m, r, b, l)
  BY DEF Observed
<1>4. b \in {"synced", "drift"} /\ l \in BOOLEAN
  OBVIOUS
<1> HIDE DEF r, b, l
<1>5. /\ wk' \in [UID -> Working \cup {Idle}]
      /\ wk'[m].pc = AfterObserve(r, b, l)
      /\ wk'[m].pc # "idle" =>
           /\ wk'[m].mr = r /\ wk'[m].obs = b /\ wk'[m].late = l
           /\ wk'[m].fresh = wk[m].fresh
      /\ Others(m)
  BY <1>2, <1>3, <1>4, ReportMove
<1> QED
  BY <1>2, <1>4, <1>5

\* A whole-object write stores the copy, or ends the reconcile with a conflict.
LEMMA PersistMove ==
    ASSUME TypeOK, NEW m \in UID, wk[m] \in Working, NEW r \in LiveCR,
           NEW p \in PCs \cup {"idle"}, Persist(m, r, p)
    PROVE  /\ cr' \in [UID -> CRs] /\ wk' \in [UID -> Working \cup {Idle}]
           /\ wk'[m].pc # "idle" => /\ wk[m].fresh /\ wk'[m].fresh
                                    /\ wk'[m].pc = p /\ wk'[m].mr = r
                                    /\ wk'[m].obs = wk[m].obs
           /\ cr'[m] = IF wk[m].fresh THEN r ELSE cr[m]
           /\ \A n \in UID \ {m} : cr'[n] = cr[n]
           /\ Others(m)
<1>0. wk[m].fresh \in BOOLEAN
  BY WorkingUpdate
<1>1. CASE wk[m].fresh /\ p # "idle"
  <2>1. Continue(m, p, r) /\ cr' = [cr EXCEPT ![m] = r]
    BY <1>1 DEF Persist, Write
  <2>2. /\ wk' \in [UID -> Working \cup {Idle}] /\ Others(m)
        /\ wk'[m].pc = p /\ wk'[m].mr = r
        /\ wk'[m].fresh = wk[m].fresh /\ wk'[m].obs = wk[m].obs
    BY <1>1, <2>1, ContinueMove
  <2> QED BY <1>1, <2>1, <2>2 DEF TypeOK, CRs
<1>2. CASE wk[m].fresh /\ p = "idle"
  <2>1. Return(m) /\ cr' = [cr EXCEPT ![m] = r]
    BY <1>2 DEF Persist, Write
  <2> QED BY <1>2, <2>1, ReturnMove DEF TypeOK, CRs, Idle
<1>3. CASE ~wk[m].fresh
  <2>1. Return(m) /\ cr' = cr
    BY <1>3 DEF Persist
  <2> QED BY <1>3, <2>1, ReturnMove DEF TypeOK, Idle
<1> QED BY <1>0, <1>1, <1>2, <1>3

-----------------------------------------------------------------------------
(***************************************************************************)
(* A step of one actor leaves the others guarded, because no step stamps   *)
(* an object for somebody else.                                            *)
(***************************************************************************)
Untouched(n) == cr'[n] = cr[n] /\ cache'[n] = cache[n] /\ wk'[n] = wk[n]

\* A step of another managed resource that adds no stamp of n keeps n guarded.
LEMMA GuardedFrame ==
    ASSUME NEW n \in UID, Guarded(n), Untouched(n),
           Owned(n) = {} => Owned(n)' = {}
    PROVE  Guarded(n)'
  BY DEF Guarded, Untouched, StageFits, CopiesLag, FinalizerHolds, FinalizerGuards,
         Busy, Exists, Cached

\* So a step of m need only be shown to keep m guarded.
LEMMA OrphanLift ==
    ASSUME OrphanInv, NEW m \in UID, TypeOK', Guarded(m)',
           \A n \in UID \ {m} : Untouched(n),
           \A n \in UID \ {m} : Owned(n) = {} => Owned(n)' = {}
    PROVE  OrphanInv'
<1>1. ASSUME NEW n \in UID PROVE Guarded(n)'
  <2>1. CASE n = m
    BY <2>1
  <2>2. CASE n # m
    BY <2>2, GuardedFrame DEF OrphanInv
  <2> QED BY <2>1, <2>2
<1> QED
  BY <1>1 DEF OrphanInv

\* A reconcile that ends without having stamped anything.
LEMMA OrphanReturn ==
    ASSUME OrphanInv, NEW m \in UID, Return(m), UNCHANGED <<cr, cache>>,
           left' \in [{"edit", "abort", "admin"} -> Nat],
           owner' \in [Addr -> UID \cup {NoStamp, Absent}], data' \in [Addr -> Val],
           \A n \in UID : Owned(n) = {} => Owned(n)' = {}
    PROVE  OrphanInv'
<1>1. TypeOK /\ Guarded(m)
  BY DEF OrphanInv
<1>2. wk' \in [UID -> Working \cup {Idle}] /\ wk'[m].pc = "idle" /\ Others(m)
  BY <1>1, ReturnMove DEF Idle
<1>3. TypeOK' /\ \A n \in UID \ {m} : Untouched(n)
  BY <1>1, <1>2 DEF TypeOK, Untouched, Others
<1>4. Guarded(m)'
  BY <1>1, <1>2
     DEF Guarded, StageFits, CopiesLag, FinalizerHolds, FinalizerGuards,
         Busy, Exists, Cached, Owned
<1> QED
  BY <1>3, <1>4, OrphanLift

\* A reconcile that ends without a call changes nothing else.
LEMMA OrphanQuit ==
    ASSUME OrphanInv, NEW m \in UID, Return(m),
           UNCHANGED <<owner, data, cr, cache, left>>
    PROVE  OrphanInv'
<1>1. TypeOK
  BY DEF OrphanInv
<1>2. /\ left' \in [{"edit", "abort", "admin"} -> Nat]
      /\ owner' \in [Addr -> UID \cup {NoStamp, Absent}] /\ data' \in [Addr -> Val]
  BY <1>1 DEF TypeOK
<1>3. \A n \in UID : Owned(n) = {} => Owned(n)' = {}
  BY DEF Owned
<1> QED
  BY <1>2, <1>3, OrphanReturn

\* A new managed resource owns nothing and has no reconcile.
LEMMA OrphanNewRecord ==
    ASSUME OrphanInv, NEW m \in UID, NewRecord(m) PROVE OrphanInv'
<1>1. TypeOK /\ Guarded(m)
  BY DEF OrphanInv
<1>2. PICK r \in LiveCR : cr' = [cr EXCEPT ![m] = r] /\ r.phase = "live" /\ r.fin = FALSE
  <2>1. PICK a \in Addr, v \in SpecVal, e \in {NoRef} \cup Imports[m] :
          cr' = [cr EXCEPT ![m] = [phase |-> "live", fin |-> FALSE, begun |-> FALSE,
                                   ext |-> e, addr |-> a, val |-> v]]
    BY DEF NewRecord, Write
  <2>2. v \in Val \cup {Nil} /\ e \in Addr \cup {NoRef}
    BY ARecordConstants
  <2>3. [phase |-> "live", fin |-> FALSE, begun |-> FALSE, ext |-> e,
         addr |-> a, val |-> v] \in LiveCR
    BY <2>2 DEF LiveCR
  <2> QED
    BY <2>1, <2>3
<1>3. TypeOK'
  BY <1>1, <1>2 DEF NewRecord, TypeOK, CRs
<1>4. cr'[m] = r /\ \A n \in UID \ {m} : Untouched(n)
  BY <1>1, <1>2 DEF NewRecord, TypeOK, Untouched
<1>5. Guarded(m)'
  BY <1>1, <1>2, <1>4
     DEF NewRecord, NoCR, Guarded, StageFits, CopiesLag, FinalizerHolds, FinalizerGuards,
         Busy, Exists, Cached, Owned
<1> QED
  BY <1>3, <1>4, <1>5, OrphanLift DEF NewRecord, Owned

\* Editing a spec touches neither phase nor finalizer.
LEMMA OrphanEditSpec ==
    ASSUME OrphanInv, NEW m \in UID, EditSpec(m) PROVE OrphanInv'
<1>1. TypeOK /\ Guarded(m)
  BY DEF OrphanInv
<1>2. cr[m] \in LiveCR
  BY <1>1, ExistsLive DEF EditSpec
<1>3. PICK r \in LiveCR : /\ cr' = [cr EXCEPT ![m] = r]
                          /\ r.phase = cr[m].phase /\ r.fin = cr[m].fin
  <2>1. PICK a \in Addr, v \in SpecVal :
          cr' = [cr EXCEPT ![m] = [cr[m] EXCEPT !.addr = a, !.val = v]]
    BY DEF EditSpec, Write
  <2>2. v \in Val \cup {Nil}
    BY ARecordConstants
  <2> DEFINE r == [cr[m] EXCEPT !.addr = a, !.val = v]
  <2>3. r \in LiveCR /\ r.phase = cr[m].phase /\ r.fin = cr[m].fin
    BY <1>2, <2>2 DEF LiveCR
  <2> QED
    BY <2>1, <2>3
<1>4. /\ wk' \in [UID -> Working \cup {Idle}]
      /\ wk'[m].pc = wk[m].pc
      /\ Busy(m) => wk'[m].mr = wk[m].mr /\ wk'[m].fresh = FALSE
      /\ Others(m)
  BY <1>1, OutdateMove DEF EditSpec
<1>5. TypeOK'
  <2>1. left' \in [{"edit", "abort", "admin"} -> Nat]
    BY <1>1, SpendTyped DEF EditSpec
  <2> QED
    BY <1>1, <1>3, <1>4, <2>1 DEF EditSpec, TypeOK, CRs
<1>6. cr'[m] = r /\ \A n \in UID \ {m} : Untouched(n)
  BY <1>1, <1>3, <1>4 DEF EditSpec, TypeOK, Untouched, Others
<1>7. Guarded(m)'
  BY <1>1, <1>3, <1>4, <1>6
     DEF EditSpec, Guarded, StageFits, CopiesLag, FinalizerHolds, FinalizerGuards,
         Busy, Exists, Cached, Owned
<1> QED
  BY <1>5, <1>6, <1>7, OrphanLift DEF EditSpec, Owned

\* Nor does somebody who lets a refused resource go on.
LEMMA OrphanUnblock ==
    ASSUME OrphanInv, NEW m \in UID, Unblock(m) PROVE OrphanInv'
<1>1. TypeOK /\ Guarded(m)
  BY DEF OrphanInv
<1>2. cr[m] \in LiveCR
  BY <1>1, ExistsLive DEF Unblock, Exists
<1> DEFINE r == [cr[m] EXCEPT !.begun = FALSE]
<1>3. /\ cr' = [cr EXCEPT ![m] = r]
      /\ r \in LiveCR /\ r.phase = cr[m].phase /\ r.fin = cr[m].fin
  BY <1>2 DEF Unblock, Write, LiveCR
<1>4. /\ wk' \in [UID -> Working \cup {Idle}]
      /\ wk'[m].pc = wk[m].pc
      /\ Busy(m) => wk'[m].mr = wk[m].mr /\ wk'[m].fresh = FALSE
      /\ Others(m)
  BY <1>1, OutdateMove DEF Unblock
<1> HIDE DEF r
<1>5. TypeOK'
  BY <1>1, <1>3, <1>4 DEF Unblock, TypeOK, CRs
<1>6. cr'[m] = r /\ \A n \in UID \ {m} : Untouched(n)
  BY <1>1, <1>3, <1>4 DEF Unblock, TypeOK, Untouched, Others
<1>7. Guarded(m)'
  BY <1>1, <1>3, <1>4, <1>6
     DEF Unblock, Guarded, StageFits, CopiesLag, FinalizerHolds, FinalizerGuards,
         Busy, Exists, Cached, Owned
<1> QED
  BY <1>5, <1>6, <1>7, OrphanLift DEF Unblock, Owned

\* Deleting a managed resource: without its finalizer it owned nothing.
LEMMA OrphanDeleteCR ==
    ASSUME OrphanInv, NEW m \in UID, DeleteCR(m) PROVE OrphanInv'
<1>1. TypeOK /\ Guarded(m)
  BY DEF OrphanInv
<1>2. cr[m] \in LiveCR
  BY <1>1, ExistsLive DEF DeleteCR
<1> DEFINE r == IF cr[m].fin THEN [cr[m] EXCEPT !.phase = "deleting"] ELSE GoneCR
<1>3. /\ cr' = [cr EXCEPT ![m] = r] /\ r \in CRs
      /\ cr[m].fin => r.phase = "deleting" /\ r.fin
      /\ ~cr[m].fin => r.phase = "gone"
  BY <1>2 DEF DeleteCR, Write, CRs, LiveCR, GoneCR
<1>4. /\ wk' \in [UID -> Working \cup {Idle}]
      /\ wk'[m].pc = wk[m].pc
      /\ Busy(m) => wk'[m].mr = wk[m].mr /\ wk'[m].fresh = FALSE
      /\ Others(m)
  BY <1>1, OutdateMove DEF DeleteCR
<1> HIDE DEF r
<1>5. TypeOK'
  BY <1>1, <1>3, <1>4 DEF DeleteCR, TypeOK
<1>6. cr'[m] = r /\ \A n \in UID \ {m} : Untouched(n)
  BY <1>1, <1>3, <1>4 DEF DeleteCR, TypeOK, Untouched, Others
<1>7. Guarded(m)'
  BY <1>1, <1>3, <1>4, <1>6
     DEF DeleteCR, Guarded, StageFits, CopiesLag, FinalizerHolds, FinalizerGuards,
         Busy, Exists, Cached, Owned
<1> QED
  BY <1>5, <1>6, <1>7, OrphanLift DEF DeleteCR, Owned

\* Administrators move and remove stamps, and never add one.
LEMMA OrphanAdmin ==
    ASSUME OrphanInv, Admin PROVE OrphanInv'
<1>1. TypeOK
  BY DEF OrphanInv
<1>2. TypeOK'
  <2>1. left' \in [{"edit", "abort", "admin"} -> Nat]
    BY <1>1, SpendTyped DEF Admin
  <2> QED
    BY <1>1, <2>1, ARecordConstants DEF Admin, TypeOK
<1>3. ASSUME NEW n \in UID, Owned(n) = {} PROVE Owned(n)' = {}
  BY <1>1, <1>3, IdentityConstants DEF Admin, Owned, searchByUID, TypeOK
<1>4. ASSUME NEW n \in UID PROVE Untouched(n)
  BY DEF Admin, Untouched
<1> QED
  BY <1>2, <1>3, <1>4, GuardedFrame DEF OrphanInv

\* The informer copies a state that the API server has.
LEMMA OrphanSync ==
    ASSUME OrphanInv, NEW m \in UID, Sync(m) PROVE OrphanInv'
<1>1. TypeOK /\ Guarded(m)
  BY DEF OrphanInv
<1>2. TypeOK' /\ cache'[m] = cr[m] /\ \A n \in UID \ {m} : Untouched(n)
  BY <1>1 DEF Sync, TypeOK, Untouched
<1>3. cr[m].phase \in {"none", "live", "deleting", "gone"}
  BY <1>1, ExistsLive DEF TypeOK, CRs, LiveCR, NoCR, GoneCR
<1>4. Guarded(m)'
  BY <1>1, <1>2, <1>3
     DEF Sync, Guarded, StageFits, CopiesLag, FinalizerHolds, FinalizerGuards,
         Busy, Exists, Cached, Owned
<1> QED
  BY <1>2, <1>4, OrphanLift DEF Sync, Owned

\* A reconcile starts from the informer, however old that is.
LEMMA OrphanBegin ==
    ASSUME OrphanInv, NEW m \in UID, Begin(m) PROVE OrphanInv'
<1>1. TypeOK /\ Guarded(m) /\ cache[m] \in LiveCR /\ ~Busy(m)
  BY ExistsLive DEF OrphanInv, Begin, Busy, Idle
<1> DEFINE f == cache[m] = cr[m]
           w == [pc |-> observeRefFor(cache[m].ext), mr |-> cache[m],
                 fresh |-> f, obs |-> "none", late |-> FALSE]
<1>2. wk' = [wk EXCEPT ![m] = w]
  BY DEF Begin
<1>3. f \in BOOLEAN /\ (f => cache[m] = cr[m])
  OBVIOUS
<1> HIDE DEF f
<1>4. /\ w \in Working /\ w.mr = cache[m] /\ w.fresh = f
      /\ w.pc \in {"get", "search"} /\ (w.pc = "get" => cache[m].ext \in Addr)
  BY <1>1, <1>3, LiveUpdate DEF Working, PCs, observeRefFor
<1> HIDE DEF w
<1>5. TypeOK' /\ wk'[m] = w /\ \A n \in UID \ {m} : Untouched(n)
  BY <1>1, <1>2, <1>4 DEF Begin, TypeOK, Untouched
<1>6. cache[m].phase \in {"live", "deleting"} /\ UNCHANGED <<owner, cr, cache>>
  BY DEF Begin
<1>7. Guarded(m)'
  BY <1>1, <1>3, <1>4, <1>5, <1>6
     DEF Guarded, StageFits, CopiesLag, FinalizerHolds, FinalizerGuards,
         Busy, Exists, Cached, Owned
<1> QED
  BY <1>5, <1>6, <1>7, OrphanLift DEF Owned

(***************************************************************************)
(* The calls of Observe.  Only a search that found nothing leads to the    *)
(* removal of the finalizer.                                               *)
(***************************************************************************)
LEMMA OrphanReport ==
    ASSUME OrphanInv, NEW m \in UID, Busy(m), NEW r \in LiveCR,
           NEW o \in {"absent", "synced", "drift"}, NEW l \in BOOLEAN,
           UNCHANGED <<owner, data, cr, cache, left>>,
           r.phase = wk[m].mr.phase, r.fin = wk[m].mr.fin,
           o = "absent" => Owned(m) = {},
           wk' \in [UID -> Working \cup {Idle}],
           wk'[m].pc = AfterObserve(r, o, l),
           wk'[m].pc # "idle" => wk'[m].mr = r /\ wk'[m].fresh = wk[m].fresh,
           Others(m)
    PROVE  OrphanInv'
<1>1. TypeOK /\ Guarded(m)
  BY DEF OrphanInv
<1>2. TypeOK' /\ \A n \in UID \ {m} : Untouched(n)
  BY <1>1 DEF TypeOK, Untouched, Others
<1>3. /\ r.phase \in {"live", "deleting"} /\ r.fin \in BOOLEAN
      /\ wk'[m].pc = "unfinalize" => o = "absent"
      /\ wk'[m].pc \in {"unfinalize", "dget"} => r.phase = "deleting"
      /\ wk'[m].pc = "finalizer" => r.phase = "live" /\ ~r.fin
      /\ wk'[m].pc \in {"pending", "late", "put"} => r.phase = "live" /\ r.fin
      /\ wk'[m].pc \in {"unfinalize", "dget", "finalizer", "pending", "late", "put", "idle"}
  BY LiveUpdate DEF AfterObserve, AfterFinalizer
<1>4. Guarded(m)'
  BY <1>1, <1>3
     DEF Guarded, StageFits, CopiesLag, FinalizerHolds, FinalizerGuards,
         Busy, Exists, Cached, Owned
<1> QED
  BY <1>2, <1>4, OrphanLift DEF Owned

\* observeARecord, GET of the stored reference: a 404 is not yet "absent".
LEMMA OrphanObserveGet ==
    ASSUME OrphanInv, NEW m \in UID, ObserveGet(m) PROVE OrphanInv'
<1> DEFINE ref == wk[m].mr.ext
           o == resolveByRef(owner, ref, m)
<1>1. /\ TypeOK /\ Guarded(m) /\ wk[m] \in Working /\ wk[m].mr \in LiveCR
      /\ ref \in Addr /\ Busy(m)
  BY WorkingAt DEF OrphanInv, ObserveGet, At, Guarded, StageFits, Busy
<1>2. UNCHANGED <<owner, data, cr, cache, left>>
  BY DEF ObserveGet
<1>3. CASE o = "Search"
  <2>1. Continue(m, "search", wk[m].mr)
    BY <1>3 DEF ObserveGet
  <2>2. /\ wk' \in [UID -> Working \cup {Idle}] /\ Others(m)
        /\ wk'[m].pc = "search" /\ wk'[m].mr = wk[m].mr /\ wk'[m].fresh = wk[m].fresh
    BY <1>1, <2>1, ContinueMove DEF PCs
  <2>3. TypeOK' /\ \A n \in UID \ {m} : Untouched(n)
    BY <1>1, <1>2, <2>2 DEF TypeOK, Untouched, Others
  <2>4. Guarded(m)'
    BY <1>1, <1>2, <2>2
       DEF Guarded, StageFits, CopiesLag, FinalizerHolds, FinalizerGuards,
         Busy, Exists, Cached, Owned
  <2> QED BY <1>2, <2>3, <2>4, OrphanLift DEF Owned
<1>4. CASE o = "HandleReuseError"
  <2>1. Return(m)
    BY <1>4 DEF ObserveGet
  <2> QED BY <1>2, <2>1, OrphanQuit
<1>5. CASE o \notin {"Search", "HandleReuseError"}
  <2>1. Observed(m, ref, o) /\ o \in Outcome
    BY <1>5 DEF ObserveGet, resolveByRef, Outcome
  <2>2. PICK r \in LiveCR, b \in {"synced", "drift"}, l \in BOOLEAN :
             /\ wk' \in [UID -> Working \cup {Idle}]
             /\ wk'[m].pc = AfterObserve(r, b, l)
             /\ wk'[m].pc # "idle" => wk'[m].mr = r /\ wk'[m].fresh = wk[m].fresh
             /\ Others(m)
             /\ r.phase = wk[m].mr.phase /\ r.fin = wk[m].mr.fin
    BY <1>1, <2>1, ObservedMove
  <2> QED BY <1>1, <1>2, <2>2, OrphanReport
<1> QED BY <1>3, <1>4, <1>5

\* observeARecord, search by uid: "absent" means that nothing is stamped with m.
LEMMA OrphanObserveSearch ==
    ASSUME OrphanInv, NEW m \in UID, ObserveSearch(m) PROVE OrphanInv'
<1> DEFINE o == resolveBySearch(owner, wk[m].mr.ext, m)
<1>1. /\ TypeOK /\ Guarded(m) /\ wk[m] \in Working /\ wk[m].mr \in LiveCR /\ Busy(m)
  BY WorkingAt DEF OrphanInv, ObserveSearch, At, Busy
<1>2. UNCHANGED <<owner, data, cr, cache, left>>
  BY DEF ObserveSearch
<1>3. CASE o = "NotFound"
  <2>1. Report(m, wk[m].mr, "absent", FALSE) /\ Owned(m) = {}
    BY <1>3 DEF ObserveSearch, resolveBySearch, Owned
  <2>2. /\ wk' \in [UID -> Working \cup {Idle}] /\ Others(m)
        /\ wk'[m].pc = AfterObserve(wk[m].mr, "absent", FALSE)
        /\ wk'[m].pc # "idle" => wk'[m].mr = wk[m].mr /\ wk'[m].fresh = wk[m].fresh
    BY <1>1, <2>1, ReportMove
  <2> QED BY <1>1, <1>2, <2>1, <2>2, OrphanReport
<1>4. CASE o = "AmbiguousMatchError"
  <2>1. Return(m)
    BY <1>4 DEF ObserveSearch
  <2> QED BY <1>2, <2>1, OrphanQuit
<1>5. CASE o \notin {"NotFound", "AmbiguousMatchError"}
  <2>1. PICK a \in searchByUID(owner, m) : Observed(m, a, o)
    BY <1>5 DEF ObserveSearch
  <2>2. a \in Addr /\ o \in Outcome /\ o \in {"Rotated", "FoundByUID"}
    BY <1>5 DEF searchByUID, resolveBySearch, Outcome
  <2>3. PICK r \in LiveCR, b \in {"synced", "drift"}, l \in BOOLEAN :
             /\ wk' \in [UID -> Working \cup {Idle}]
             /\ wk'[m].pc = AfterObserve(r, b, l)
             /\ wk'[m].pc # "idle" => wk'[m].mr = r /\ wk'[m].fresh = wk[m].fresh
             /\ Others(m)
             /\ r.phase = wk[m].mr.phase /\ r.fin = wk[m].mr.fin
    BY <1>1, <2>1, <2>2, ObservedMove
  <2> QED BY <1>1, <1>2, <2>3, OrphanReport
<1> QED BY <1>3, <1>4, <1>5

(***************************************************************************)
(* The runtime's whole-object writes: they take effect on a fresh copy     *)
(* only, so they neither undo a deletion nor drop a finalizer.             *)
(***************************************************************************)
LEMMA OrphanPersist ==
    ASSUME OrphanInv, NEW m \in UID, Busy(m), NEW r \in LiveCR,
           NEW p \in {"idle", "pending", "post", "late", "put"}, Persist(m, r, p),
           UNCHANGED <<owner, data, cache, left>>,
           wk[m].mr.phase = "live", r.phase = "live", r.fin
    PROVE  OrphanInv'
<1>1. TypeOK /\ Guarded(m) /\ wk[m] \in Working
  BY WorkingAt DEF OrphanInv, Busy
<1>2. /\ cr' \in [UID -> CRs] /\ wk' \in [UID -> Working \cup {Idle}]
      /\ wk'[m].pc # "idle" => /\ wk[m].fresh /\ wk'[m].fresh
                               /\ wk'[m].pc = p /\ wk'[m].mr = r
      /\ cr'[m] = IF wk[m].fresh THEN r ELSE cr[m]
      /\ \A n \in UID \ {m} : cr'[n] = cr[n]
      /\ Others(m)
  BY <1>1, PersistMove DEF PCs
<1>3. TypeOK' /\ \A n \in UID \ {m} : Untouched(n)
  BY <1>1, <1>2 DEF TypeOK, Untouched, Others
<1>4. wk[m].fresh \in BOOLEAN
  BY <1>1, WorkingUpdate
<1>5. Guarded(m)'
  BY <1>1, <1>2, <1>4
     DEF Guarded, StageFits, CopiesLag, FinalizerHolds, FinalizerGuards,
         Busy, Exists, Cached, Owned
<1> QED
  BY <1>3, <1>5, OrphanLift DEF Owned

\* The finalizer is written before anything else is done for the resource.
LEMMA OrphanAddFinalizer ==
    ASSUME OrphanInv, NEW m \in UID, AddFinalizer(m) PROVE OrphanInv'
<1> DEFINE r == [wk[m].mr EXCEPT !.fin = TRUE]
           p == AfterFinalizer(wk[m].obs, wk[m].late)
<1>1. Busy(m) /\ wk[m].mr \in LiveCR /\ wk[m].mr.phase = "live"
  BY WorkingAt DEF OrphanInv, AddFinalizer, At, Busy, Guarded, StageFits
<1>2. r \in LiveCR /\ r.phase = "live" /\ r.fin
  BY <1>1 DEF LiveCR
<1>3. p \in {"idle", "pending", "post", "late", "put"}
  BY DEF AfterFinalizer
<1>4. Persist(m, r, p) /\ UNCHANGED <<owner, data, cache, left>>
  BY DEF AddFinalizer
<1> QED
  BY <1>1, <1>2, <1>3, <1>4, OrphanPersist

\* The write before Create keeps the finalizer.
LEMMA OrphanCreatePending ==
    ASSUME OrphanInv, NEW m \in UID, CreatePending(m) PROVE OrphanInv'
<1> DEFINE r == [wk[m].mr EXCEPT !.begun = TRUE]
<1>1. Busy(m) /\ wk[m].mr \in LiveCR /\ wk[m].mr.phase = "live" /\ wk[m].mr.fin
  BY WorkingAt DEF OrphanInv, CreatePending, At, Busy, Guarded, StageFits
<1>2. r \in LiveCR /\ r.phase = "live" /\ r.fin
  BY <1>1 DEF LiveCR
<1>3. Persist(m, r, "post") /\ UNCHANGED <<owner, data, cache, left>>
  BY DEF CreatePending
<1> HIDE DEF r
<1> QED
  BY <1>1, <1>2, <1>3, OrphanPersist

\* The late-initialisation write keeps the finalizer.
LEMMA OrphanLateInit ==
    ASSUME OrphanInv, NEW m \in UID, LateInit(m) PROVE OrphanInv'
<1>1. Busy(m) /\ wk[m].mr \in LiveCR /\ wk[m].mr.phase = "live" /\ wk[m].mr.fin
  BY WorkingAt DEF OrphanInv, LateInit, At, Busy, Guarded, StageFits
<1> QED
  BY <1>1, OrphanPersist DEF LateInit

\* The finalizer comes off a resource that owns nothing.
LEMMA OrphanRemoveFinalizer ==
    ASSUME OrphanInv, NEW m \in UID, RemoveFinalizer(m) PROVE OrphanInv'
<1>1. TypeOK /\ Guarded(m) /\ Busy(m)
  BY DEF OrphanInv, RemoveFinalizer, At, Busy
<1>2. /\ Return(m) /\ UNCHANGED <<owner, data, cache, left>>
      /\ cr' = cr \/ cr' = [cr EXCEPT ![m] = GoneCR]
  BY DEF RemoveFinalizer, Persist, Write
<1>3. wk' \in [UID -> Working \cup {Idle}] /\ wk'[m].pc = "idle" /\ Others(m)
  BY <1>1, <1>2, ReturnMove DEF Idle
<1>4. TypeOK' /\ \A n \in UID \ {m} : Untouched(n)
  BY <1>1, <1>2, <1>3 DEF TypeOK, Untouched, Others, CRs
<1>5. cr'[m] = cr[m] \/ cr'[m] = GoneCR
  BY <1>1, <1>2 DEF TypeOK
<1>6. wk[m].pc = "unfinalize" /\ Owned(m)' = Owned(m)
  BY <1>2 DEF RemoveFinalizer, At, Owned
<1>7. Guarded(m)'
  <2>1. CASE cr'[m] = cr[m]
    BY <1>1, <1>2, <1>3, <1>6, <2>1
       DEF Guarded, StageFits, CopiesLag, FinalizerHolds, FinalizerGuards,
           Busy, Exists, Cached
  <2>2. CASE cr'[m] = GoneCR
    BY <1>1, <1>2, <1>3, <1>6, <2>2
       DEF Guarded, StageFits, CopiesLag, FinalizerHolds, FinalizerGuards,
           Busy, Exists, Cached, GoneCR
  <2> QED BY <1>5, <2>1, <2>2
<1> QED
  BY <1>2, <1>4, <1>7, OrphanLift DEF Owned

(***************************************************************************)
(* The two calls that stamp.  The finalizer is on by then.                 *)
(***************************************************************************)
LEMMA OrphanStamp ==
    ASSUME OrphanInv, NEW m \in UID, wk[m].pc \in {"post", "put"},
           NEW p \in {"name", "refresh"}, NEW r \in LiveCR,
           r.phase = wk[m].mr.phase, r.fin = wk[m].mr.fin,
           Return(m) \/ Continue(m, p, r),
           UNCHANGED <<cr, cache>>, left' \in [{"edit", "abort", "admin"} -> Nat],
           owner' \in [Addr -> UID \cup {NoStamp, Absent}], data' \in [Addr -> Val],
           \A a \in Addr : owner'[a] \in {owner[a], m, Absent}
    PROVE  OrphanInv'
<1>1. TypeOK /\ Guarded(m) /\ wk[m] \in Working
  BY WorkingAt DEF OrphanInv
<1>2. \A n \in UID \ {m} : Owned(n) = {} => Owned(n)' = {}
  BY IdentityConstants DEF Owned, searchByUID
<1>3. CASE Return(m)
  <2>1. wk' \in [UID -> Working \cup {Idle}] /\ wk'[m].pc = "idle" /\ Others(m)
    BY <1>1, <1>3, ReturnMove DEF Idle
  <2>2. TypeOK' /\ \A n \in UID \ {m} : Untouched(n)
    BY <1>1, <2>1 DEF TypeOK, Untouched, Others
  <2>3. Guarded(m)'
    BY <1>1, <2>1
       DEF Guarded, StageFits, CopiesLag, FinalizerHolds, FinalizerGuards,
           Busy, Exists, Cached
  <2> QED BY <1>2, <2>2, <2>3, OrphanLift
<1>4. CASE Continue(m, p, r)
  <2>0. p \in PCs
    BY DEF PCs
  <2>1. /\ wk' \in [UID -> Working \cup {Idle}] /\ wk'[m].pc = p /\ wk'[m].mr = r
        /\ wk'[m].fresh = wk[m].fresh /\ Others(m)
    BY <1>1, <1>4, <2>0, ContinueMove
  <2>2. TypeOK' /\ \A n \in UID \ {m} : Untouched(n)
    BY <1>1, <2>1 DEF TypeOK, Untouched, Others
  <2>3. Guarded(m)'
    BY <1>1, <2>1
       DEF Guarded, StageFits, CopiesLag, FinalizerHolds, FinalizerGuards,
           Busy, Exists, Cached
  <2> QED BY <1>2, <2>2, <2>3, OrphanLift
<1> QED BY <1>3, <1>4

\* createARecord stamps for one resource only.
LEMMA CreatedTyped ==
    ASSUME TypeOK, NEW m \in UID, wk[m].mr \in LiveCR,
           Created(m) \/ UNCHANGED <<owner, data>>
    PROVE  /\ owner' \in [Addr -> UID \cup {NoStamp, Absent}]
           /\ data' \in [Addr -> Val]
           /\ \A a \in Addr : owner'[a] \in {owner[a], m, Absent}
<1>1. wk[m].mr.addr \in Addr /\ strOrEmpty(wk[m].mr.val) \in Val
  BY LiveUpdate, ARecordConstants DEF strOrEmpty
<1> QED
  BY <1>1 DEF Created, TypeOK

\* createARecord stamps for a resource whose finalizer is on.
LEMMA OrphanCreate ==
    ASSUME OrphanInv, NEW m \in UID, Create(m) PROVE OrphanInv'
<1> DEFINE r == wk[m].mr
           q == [r EXCEPT !.ext = r.addr]
<1>1. TypeOK /\ wk[m].pc = "post" /\ r \in LiveCR
  BY WorkingAt DEF OrphanInv, Create, At
<1>2. q \in LiveCR /\ q.phase = r.phase /\ q.fin = r.fin
  BY <1>1 DEF LiveCR
<1>3. /\ Created(m) /\ Continue(m, "name", q) /\ UNCHANGED <<cr, cache>>
      /\ left' \in [{"edit", "abort", "admin"} -> Nat]
  BY <1>1 DEF Create, TypeOK
<1>4. /\ owner' \in [Addr -> UID \cup {NoStamp, Absent}]
      /\ data' \in [Addr -> Val]
      /\ \A a \in Addr : owner'[a] \in {owner[a], m, Absent}
  BY <1>1, <1>3, CreatedTyped
<1> HIDE DEF q
<1> QED
  BY <1>1, <1>2, <1>3, <1>4, OrphanStamp

\* So it does when the reply is lost.
LEMMA OrphanCreateFails ==
    ASSUME OrphanInv, NEW m \in UID, CreateFails(m) PROVE OrphanInv'
<1>1. TypeOK /\ wk[m].pc = "post" /\ wk[m].mr \in LiveCR
  BY WorkingAt DEF OrphanInv, CreateFails, At
<1>2. /\ Created(m) \/ UNCHANGED <<owner, data>>
      /\ Continue(m, "name", wk[m].mr) /\ UNCHANGED <<cr, cache>>
  BY DEF CreateFails
<1>3. left' \in [{"edit", "abort", "admin"} -> Nat]
  BY <1>1, SpendTyped DEF CreateFails, TypeOK
<1>4. /\ owner' \in [Addr -> UID \cup {NoStamp, Absent}]
      /\ data' \in [Addr -> Val]
      /\ \A a \in Addr : owner'[a] \in {owner[a], m, Absent}
  BY <1>1, <1>2, CreatedTyped
<1> QED
  BY <1>1, <1>2, <1>3, <1>4, OrphanStamp

\* updateARecord stamps for a resource whose finalizer is on.
LEMMA OrphanUpdate ==
    ASSUME OrphanInv, NEW m \in UID, Update(m) PROVE OrphanInv'
<1> DEFINE r == wk[m].mr
           q == [r EXCEPT !.ext = r.addr]
<1>1. TypeOK /\ wk[m].pc = "put" /\ r \in LiveCR
  BY WorkingAt DEF OrphanInv, Update, At
<1>2. q \in LiveCR /\ q.phase = r.phase /\ q.fin = r.fin /\ r.addr \in Addr
  BY <1>1 DEF LiveCR
<1>3. strOrEmpty(r.val) \in Val
  BY <1>1, LiveUpdate, ARecordConstants DEF strOrEmpty
<1>4. /\ owner' \in [Addr -> UID \cup {NoStamp, Absent}]
      /\ data' \in [Addr -> Val]
      /\ \A a \in Addr : owner'[a] \in {owner[a], m, Absent}
  BY <1>1, <1>2, <1>3, ARecordConstants DEF Update, TypeOK
<1>5. /\ Return(m) \/ Continue(m, "refresh", q)
      /\ UNCHANGED <<cr, cache>> /\ left' \in [{"edit", "abort", "admin"} -> Nat]
  BY <1>1 DEF Update, TypeOK
<1> HIDE DEF q
<1> QED
  BY <1>1, <1>2, <1>4, <1>5, OrphanStamp

\* The annotations alone are written, on whatever the API server holds.
LEMMA OrphanWriteName ==
    ASSUME OrphanInv, NEW m \in UID, wk[m].pc \in {"name", "refresh"},
           NEW begun, Exists(m) => begun \in BOOLEAN, WriteExternalName(m, begun)
    PROVE  OrphanInv'
<1>1. TypeOK /\ Guarded(m) /\ wk[m].mr \in LiveCR
  BY WorkingAt DEF OrphanInv
<1>2. /\ wk' \in [UID -> Working \cup {Idle}] /\ wk'[m].pc = "idle" /\ Others(m)
      /\ UNCHANGED <<owner, data, cache, left>>
  BY <1>1, ReturnMove DEF WriteExternalName, Idle
<1>3. /\ cr' \in [UID -> CRs] /\ \A n \in UID \ {m} : cr'[n] = cr[n]
      /\ cr'[m].phase = cr[m].phase
      /\ Exists(m) => cr'[m].fin = cr[m].fin
  <2>1. CASE ~Exists(m)
    BY <1>1, <2>1 DEF WriteExternalName, TypeOK
  <2>2. CASE Exists(m)
    <3> DEFINE r == [cr[m] EXCEPT !.ext = wk[m].mr.ext, !.begun = begun]
    <3>1. cr[m] \in LiveCR /\ wk[m].mr.ext \in Addr \cup {NoRef}
      BY <1>1, <2>2, ExistsLive, LiveUpdate DEF Exists
    <3>2. r \in LiveCR /\ r.phase = cr[m].phase /\ r.fin = cr[m].fin
      BY <2>2, <3>1 DEF LiveCR
    <3>3. cr' = [cr EXCEPT ![m] = r]
      BY <2>2 DEF WriteExternalName, Write
    <3> HIDE DEF r
    <3> QED
      BY <1>1, <3>2, <3>3 DEF TypeOK, CRs
  <2> QED BY <2>1, <2>2
<1>4. TypeOK' /\ \A n \in UID \ {m} : Untouched(n)
  BY <1>1, <1>2, <1>3 DEF TypeOK, Untouched, Others
<1>5. Guarded(m)'
  BY <1>1, <1>2, <1>3
     DEF Guarded, StageFits, CopiesLag, FinalizerHolds, FinalizerGuards,
         Busy, Exists, Cached, Owned
<1> QED
  BY <1>2, <1>4, <1>5, OrphanLift DEF Owned

\* The outcome of a creation is recorded with its reference.
LEMMA OrphanUpdateCriticalAnnotations ==
    ASSUME OrphanInv, NEW m \in UID, UpdateCriticalAnnotations(m) PROVE OrphanInv'
  BY OrphanWriteName DEF UpdateCriticalAnnotations, At

\* Refresh leaves it alone.
LEMMA OrphanRefresh ==
    ASSUME OrphanInv, NEW m \in UID, Refresh(m) PROVE OrphanInv'
<1>1. Exists(m) => cr[m].begun \in BOOLEAN
  BY ExistsLive, LiveUpdate DEF OrphanInv, Exists
<1> QED
  BY <1>1, OrphanWriteName DEF Refresh, At

(***************************************************************************)
(* The calls of Delete, and a reconcile that is cut short.                 *)
(***************************************************************************)
LEMMA OrphanDeleteStage ==
    ASSUME OrphanInv, NEW m \in UID, Busy(m), wk[m].mr.phase = "deleting",
           NEW p \in {"dsearch", "delete"}, NEW r \in LiveCR,
           r.phase = wk[m].mr.phase, r.fin = wk[m].mr.fin, Continue(m, p, r),
           UNCHANGED <<owner, data, cr, cache, left>>
    PROVE  OrphanInv'
<1>1. TypeOK /\ Guarded(m) /\ wk[m] \in Working
  BY WorkingAt DEF OrphanInv, Busy
<1>2. /\ wk' \in [UID -> Working \cup {Idle}] /\ wk'[m].pc = p /\ wk'[m].mr = r
      /\ wk'[m].fresh = wk[m].fresh /\ Others(m)
  BY <1>1, ContinueMove DEF PCs
<1>3. TypeOK' /\ \A n \in UID \ {m} : Untouched(n)
  BY <1>1, <1>2 DEF TypeOK, Untouched, Others
<1>4. Guarded(m)'
  BY <1>1, <1>2
     DEF Guarded, StageFits, CopiesLag, FinalizerHolds, FinalizerGuards,
         Busy, Exists, Cached, Owned
<1> QED
  BY <1>3, <1>4, OrphanLift DEF Owned

\* deleteARecordIdentity, GET of the stored reference.
LEMMA OrphanDeleteGet ==
    ASSUME OrphanInv, NEW m \in UID, DeleteGet(m) PROVE OrphanInv'
<1>1. Busy(m) /\ wk[m].mr \in LiveCR /\ wk[m].mr.phase = "deleting"
  BY WorkingAt DEF OrphanInv, DeleteGet, At, Busy, Guarded, StageFits
<1>2. /\ UNCHANGED <<owner, data, cr, cache, left>>
      /\ \/ Return(m)
         \/ \E p \in {"dsearch", "delete"} : Continue(m, p, wk[m].mr)
  BY DEF DeleteGet
<1> QED
  BY <1>1, <1>2, OrphanDeleteStage, OrphanQuit

\* deleteARecordIdentity, search by uid.
LEMMA OrphanDeleteSearch ==
    ASSUME OrphanInv, NEW m \in UID, DeleteSearch(m) PROVE OrphanInv'
<1>1. Busy(m) /\ wk[m].mr \in LiveCR /\ wk[m].mr.phase = "deleting"
  BY WorkingAt DEF OrphanInv, DeleteSearch, At, Busy, Guarded, StageFits
<1>2. UNCHANGED <<owner, data, cr, cache, left>>
  BY DEF DeleteSearch
<1>3. CASE Return(m)
  BY <1>2, <1>3, OrphanQuit
<1>4. ASSUME NEW a \in Addr, Continue(m, "delete", [wk[m].mr EXCEPT !.ext = a])
      PROVE  OrphanInv'
  <2> DEFINE r == [wk[m].mr EXCEPT !.ext = a]
  <2>1. r \in LiveCR /\ r.phase = wk[m].mr.phase /\ r.fin = wk[m].mr.fin
    BY <1>1 DEF LiveCR
  <2>2. Continue(m, "delete", r)
    BY <1>4
  <2> HIDE DEF r
  <2> QED
    BY <1>1, <1>2, <2>1, <2>2, OrphanDeleteStage
<1> QED
  BY <1>3, <1>4 DEF DeleteSearch, searchByUID

\* deleteARecord only takes stamps away.
LEMMA OrphanDelete ==
    ASSUME OrphanInv, NEW m \in UID, Delete(m) PROVE OrphanInv'
<1>1. TypeOK
  BY DEF OrphanInv
<1>2. /\ owner' \in [Addr -> UID \cup {NoStamp, Absent}] /\ data' \in [Addr -> Val]
      /\ \A a \in Addr : owner'[a] \in {owner[a], Absent}
  BY <1>1, ARecordConstants DEF Delete, TypeOK
<1>3. \A n \in UID : Owned(n) = {} => Owned(n)' = {}
  BY <1>2, IdentityConstants DEF Owned, searchByUID
<1>4. left' \in [{"edit", "abort", "admin"} -> Nat]
  BY <1>1 DEF Delete, TypeOK
<1> QED
  BY <1>2, <1>3, <1>4, OrphanReturn DEF Delete

\* A crash or a failed call forgets the reconcile.
LEMMA OrphanAbort ==
    ASSUME OrphanInv, NEW m \in UID, Abort(m) PROVE OrphanInv'
<1>1. TypeOK
  BY DEF OrphanInv
<1>2. left' \in [{"edit", "abort", "admin"} -> Nat]
  BY <1>1, SpendTyped DEF Abort
<1>3. owner' \in [Addr -> UID \cup {NoStamp, Absent}] /\ data' \in [Addr -> Val]
  BY <1>1 DEF Abort, TypeOK
<1>4. \A n \in UID : Owned(n) = {} => Owned(n)' = {}
  BY DEF Abort, Owned
<1> QED
  BY <1>2, <1>3, <1>4, OrphanReturn DEF Abort

-----------------------------------------------------------------------------
\* Initially there are no managed resources, and no stamps.
LEMMA OrphanInit == Init => OrphanInv
<1> SUFFICES ASSUME Init PROVE OrphanInv
  OBVIOUS
<1>1. TypeOK
  BY ARecordConstants, IdentityConstants DEF Init, TypeOK, CRs
<1>2. ASSUME NEW m \in UID PROVE Guarded(m)
  <2>1. cr[m] = NoCR /\ cache[m] = NoCR /\ wk[m] = Idle
    BY DEF Init
  <2>2. Owned(m) = {}
    BY IdentityConstants DEF Init, Owned, searchByUID
  <2> QED
    BY <2>1, <2>2
       DEF Guarded, StageFits, CopiesLag, FinalizerHolds, FinalizerGuards,
           Busy, Exists, Cached, NoCR, Idle
<1> QED
  BY <1>1, <1>2 DEF OrphanInv

\* The invariant is inductive: one lemma per action.
LEMMA OrphanNext == OrphanInv /\ [Next]_vars => OrphanInv'
<1> SUFFICES ASSUME OrphanInv, [Next]_vars PROVE OrphanInv'
  OBVIOUS
<1>1. CASE UNCHANGED vars
  BY <1>1 DEF vars, OrphanInv, TypeOK, Guarded, StageFits, CopiesLag, FinalizerHolds,
     FinalizerGuards, Busy, Exists, Cached, Owned
<1>2. ASSUME NEW m \in UID, User(m) \/ Sync(m) \/ Abort(m) PROVE OrphanInv'
  BY <1>2, OrphanNewRecord, OrphanEditSpec, OrphanDeleteCR, OrphanUnblock, OrphanSync,
     OrphanAbort DEF User
<1>3. ASSUME NEW m \in UID, Reconcile(m) PROVE OrphanInv'
  BY <1>3, OrphanBegin, OrphanObserveGet, OrphanObserveSearch, OrphanAddFinalizer,
     OrphanCreatePending, OrphanLateInit, OrphanRemoveFinalizer, OrphanCreate,
     OrphanCreateFails, OrphanUpdateCriticalAnnotations, OrphanUpdate, OrphanRefresh,
     OrphanDeleteGet, OrphanDeleteSearch, OrphanDelete DEF Reconcile
<1> QED
  BY <1>1, <1>2, <1>3, OrphanAdmin DEF Next

\* Every state of the managed resources, the Grid, the informer and the
\* reconciles is well-typed; in particular an unset field never reaches the Grid
\* (strOrEmpty) and a reconcile's next call is one the runtime can make.
THEOREM TypeCorrect == Spec => []TypeOK
<1>1. OrphanInv => TypeOK
  BY DEF OrphanInv
<1> QED
  BY <1>1, OrphanInit, OrphanNext, PTL DEF Spec

\* A managed resource that is gone leaves no object stamped with its uid, whatever
\* administrators do: deleteARecordIdentity reports success, and the finalizer
\* comes off, only after the search by uid found nothing.
THEOREM NoOrphanHolds == Spec => []NoOrphan
<1>1. OrphanInv => NoOrphan
  BY DEF OrphanInv, NoOrphan, Guarded, FinalizerGuards, Exists
<1> QED
  BY <1>1, OrphanInit, OrphanNext, PTL DEF Spec
=============================================================================
