------------------------ MODULE DriftDetection_proofs ------------------------
(***************************************************************************)
(* Type correctness of DriftDetection, and that Update leaves an ignored   *)
(* field as the Grid reported it, for every set of values and any number   *)
(* of edits, drifts and failures.                                          *)
(***************************************************************************)
EXTENDS DriftDetection, TLAPS

USE DriftConstants

Calls == {"observe", "shadow", "create", "late", "put", "status"}

\* A reconcile under way is one of Working.
LEMMA UnderWay ==
    ASSUME TypeOK, wk # Idle \/ wk.pc \in Calls
    PROVE  wk \in Working /\ wk # Idle
<1>1. Idle.pc \notin Calls
  BY DEF Idle, Calls
<1>2. \A w \in Working : w.pc \in Calls
  BY DEF Working, Calls
<1> QED BY <1>1, <1>2 DEF TypeOK

\* What the helpers on the ignored field return.
LEMMA HelperTypes ==
    ASSUME NEW o \in Object
    PROVE  /\ observeFromRecordA(o) \in Mirrored
           /\ \A v \in Val \cup {Nil} : lateInitialize(v, o) \in Val \cup {Nil}
           /\ \A v \in Val \cup {Nil} : strOrEmpty(v) \in Val
BY DEF Object, Mirrored, observeFromRecordA, lateInitialize, strOrEmpty

\* An observation leads to one of the runtime's next calls.
LEMMA AfterObserveType ==
    ASSUME NEW late \in BOOLEAN, NEW synced \in BOOLEAN
    PROVE  /\ AfterObserve(late, synced) \in Calls
           /\ late => AfterObserve(late, synced) = "late"
           /\ ~late => AfterObserve(late, synced) \in {"status", "put"}
BY DEF AfterObserve, Calls

\* What is written of g.
LEMMA Sent ==
    ASSUME TypeOK, wk \in Working
    PROVE  /\ apply(wk.mr, IF Active(wk.mr) THEN wk.captured ELSE Unobserved).g
                \in Val \cup {Nil}
           /\ Active(wk.mr) /\ wk.captured # Unobserved =>
                strOrEmpty(apply(wk.mr, IF Active(wk.mr) THEN wk.captured ELSE Unobserved).g)
                  = wk.captured.g
<1>1. wk.mr.g \in Val \cup {Nil} /\ wk.captured \in Mirrored
  BY DEF Working, Managed
<1>2. wk.captured # Unobserved => wk.captured.g \in Val
  BY <1>1 DEF Mirrored
<1>3. Field(wk.mr.g, FALSE).g = wk.mr.g
  BY DEF Field
<1> QED BY <1>1, <1>2, <1>3 DEF apply, strOrEmpty

-----------------------------------------------------------------------------
\* The copy a first Observe makes of the resource.
Copy == [wk.mr EXCEPT !.g = lateInitialize(@, obj), !.at = observeFromRecordA(obj)]

\* It is a resource with the observed field and the configuration it had.
LEMMA CopyType ==
    ASSUME TypeOK, wk \in Working, obj # Absent
    PROVE  /\ Copy \in Managed
           /\ Copy.at = observeFromRecordA(obj)
           /\ snapshot(Copy) \in Mirrored
           /\ Active(Copy) => snapshot(Copy) = observeFromRecordA(obj)
<1>1. obj \in Object /\ wk.mr \in Managed
  BY DEF TypeOK, Working
<1>2. observeFromRecordA(obj) \in Mirrored /\ lateInitialize(wk.mr.g, obj) \in Val \cup {Nil}
  BY <1>1, HelperTypes DEF Managed
<1>3. Copy \in Managed /\ Copy.at = observeFromRecordA(obj)
  BY <1>1, <1>2 DEF Copy, Managed
<1>4. Unobserved \in Mirrored
  BY DEF Mirrored
<1> QED BY <1>2, <1>3, <1>4 DEF snapshot, Active

\* The states keep their types.
LEMMA TypeStep == TypeOK /\ [Next]_vars => TypeOK'
<1> SUFFICES ASSUME TypeOK, [Next]_vars
             PROVE  TypeOK'
  OBVIOUS
<1>1. CASE EditSpec
  <2>1. left' \in [{"edit", "wish", "drift", "abort"} -> Nat]
    BY <1>1 DEF EditSpec, Spend, TypeOK
  <2>2. cr' \in Managed
    BY <1>1 DEF EditSpec, TypeOK, Managed
  <2>3. wk' \in Working \cup {Idle}
    <3>1. CASE wk = Idle
      BY <1>1, <3>1 DEF EditSpec
    <3>2. CASE wk # Idle
      BY <1>1, <3>2, UnderWay DEF EditSpec, Working
    <3> QED BY <3>1, <3>2
  <2> QED BY <1>1, <2>1, <2>2, <2>3 DEF EditSpec, TypeOK
<1>2. CASE Decide
  BY <1>2 DEF Decide, Spend, TypeOK
<1>3. CASE Assert
  <2>1. obj' \in Object
    BY <1>3 DEF Assert, TypeOK, Object
  <2>2. wk' \in Working \cup {Idle}
    <3>1. CASE wk = Idle
      BY <1>3, <3>1 DEF Assert
    <3>2. CASE wk # Idle
      BY <1>3, <3>2, UnderWay DEF Assert, Working
    <3> QED BY <3>1, <3>2
  <2> QED BY <1>3, <2>1, <2>2 DEF Assert, TypeOK
<1>4. CASE Drift
  <2>1. obj' \in Object \cup {Absent}
    BY <1>4 DEF Drift, TypeOK, Object
  <2> QED BY <1>4, <2>1 DEF Drift, Spend, TypeOK
<1>5. CASE Begin
  <2>1. wk' \in Working
    BY <1>5 DEF Begin, TypeOK, Working, Mirrored
  <2> QED BY <1>5, <2>1 DEF Begin, TypeOK
<1>6. CASE Observe
  <2>1. wk \in Working
    BY <1>6, UnderWay DEF Observe, At, Calls
  <2>2. wk' \in Working
    <3>1. CASE obj = Absent /\ Go("create")
      BY <2>1, <3>1 DEF Go, Working
    <3>2. CASE obj # Absent
      <4> DEFINE late   == Copy.g # wk.mr.g
                 synced == isUpToDate(Copy.f, Field(Copy.g, FALSE), obj)
                 report == Copy.mode # "enabled" \/ synced
                 call   == IF Active(Copy) /\ ~synced THEN "shadow"
                           ELSE AfterObserve(late, report)
      <4>1. wk' = [wk EXCEPT !.mr = Copy, !.captured = snapshot(Copy), !.late = late,
                             !.synced = report, !.quiet = TRUE, !.pc = call]
        BY <1>6, <3>2 DEF Observe, Copy
      <4>2. late \in BOOLEAN /\ report \in BOOLEAN
        BY DEF isUpToDate
      <4>3. call \in Calls
        <5> HIDE DEF late, synced, report
        <5> QED BY <4>2, AfterObserveType DEF Calls
      <4>4. Copy \in Managed /\ snapshot(Copy) \in Mirrored
        BY <2>1, <3>2, CopyType
      <4> HIDE DEF late, synced, report, call
      <4> QED BY <2>1, <4>1, <4>2, <4>3, <4>4 DEF Working, Calls
    <3> QED BY <1>6, <3>1, <3>2 DEF Observe
  <2> QED BY <1>6, <2>2 DEF Observe, TypeOK
<1>7. CASE ObserveShadow
  <2>1. wk \in Working
    BY <1>7, UnderWay DEF ObserveShadow, At, Calls
  <2> DEFINE synced == obj # Absent /\ innerObserve(wk.mr.f, apply(wk.mr, wk.captured), obj)
  <2>2. wk' = [wk EXCEPT !.synced = synced, !.pc = AfterObserve(wk.late, synced)]
    BY <1>7 DEF ObserveShadow
  <2>3. synced \in BOOLEAN /\ wk.late \in BOOLEAN
    BY <2>1 DEF innerObserve, isUpToDate, Working
  <2> HIDE DEF synced
  <2>4. AfterObserve(wk.late, synced) \in Calls
    BY <2>3, AfterObserveType
  <2>5. wk' \in Working
    BY <2>1, <2>2, <2>3, <2>4 DEF Working, Calls
  <2> QED BY <1>7, <2>5 DEF ObserveShadow, TypeOK
<1>8. CASE LateInit
  <2>1. wk \in Working
    BY <1>8, UnderWay DEF LateInit, At, Calls
  <2>2. CASE wk.fresh
    <3>1. AfterObserve(FALSE, wk.synced) \in Calls
      BY <2>1, AfterObserveType DEF Working
    <3> DEFINE r == [wk.mr EXCEPT !.at = cr.at]
    <3>4. r \in Managed
      BY <2>1 DEF TypeOK, Working, Managed
    <3>5. wk' = [wk EXCEPT !.mr = r, !.pc = AfterObserve(FALSE, wk.synced)]
      BY <1>8, <2>2 DEF LateInit
    <3> HIDE DEF r
    <3>2. wk' \in Working
      BY <2>1, <3>1, <3>4, <3>5 DEF Working, Calls
    <3>3. cr' \in Managed
      BY <1>8, <2>1, <2>2 DEF LateInit, TypeOK, Working, Managed
    <3> QED BY <1>8, <3>2, <3>3 DEF LateInit, TypeOK
  <2>3. CASE ~wk.fresh
    BY <1>8, <2>3 DEF LateInit, TypeOK
  <2> QED BY <2>2, <2>3
<1>9. CASE Create
  <2>1. wk \in Working
    BY <1>9, UnderWay DEF Create, At, Calls
  <2>2. wk.mr.f \in OwnVal /\ strOrEmpty(wk.mr.g) \in Val
    BY <2>1 DEF Working, Managed, strOrEmpty
  <2>3. obj' \in Object /\ wk' \in Working
    BY <1>9, <2>1, <2>2 DEF Create, Go, Object, Working
  <2> QED BY <1>9, <2>3 DEF Create, TypeOK
<1>10. CASE Update
  <2>1. wk \in Working
    BY <1>10, UnderWay DEF Update, At, Calls
  <2>2. wk' \in Working
    BY <1>10, <2>1 DEF Update, Go, Working
  <2> DEFINE g == strOrEmpty(apply(wk.mr, IF Active(wk.mr) THEN wk.captured
                                          ELSE Unobserved).g)
  <2>3. g \in Val
    BY <2>1, Sent DEF strOrEmpty
  <2>4. obj' = IF obj = Absent THEN Absent ELSE [f |-> wk.mr.f, g |-> g, stamped |-> TRUE]
    BY <1>10 DEF Update
  <2>5. wk.mr.f \in OwnVal
    BY <2>1 DEF Working, Managed
  <2> HIDE DEF g
  <2>6. obj' \in Object \cup {Absent}
    BY <2>3, <2>4, <2>5 DEF Object
  <2> QED BY <1>10, <2>2, <2>6 DEF Update, TypeOK
<1>11. CASE Disconnect
  <2>1. wk \in Working
    BY <1>11, UnderWay DEF Disconnect, At, Calls
  <2>2. cr' \in Managed
    BY <1>11, <2>1 DEF Disconnect, TypeOK, Working, Managed
  <2> QED BY <1>11, <2>2 DEF Disconnect, TypeOK
<1>12. CASE Abort
  BY <1>12 DEF Abort, Spend, TypeOK
<1>13. CASE UNCHANGED vars
  BY <1>13 DEF vars, TypeOK
<1> QED
  BY <1>1, <1>2, <1>3, <1>4, <1>5, <1>6, <1>7, <1>8, <1>9, <1>10, <1>11, <1>12, <1>13
     DEF Next, Reconcile

\* The initial states have their types.
LEMMA TypeInit == Init => TypeOK
<1> SUFFICES ASSUME Init PROVE TypeOK
  OBVIOUS
<1>1. left \in [{"edit", "wish", "drift", "abort"} -> Nat]
  BY DEF Init
<1>2. cr \in Managed
  BY DEF Init, Spec0, Managed, Mirrored
<1>3. obj \in Object \cup {Absent} /\ wish \in Val \cup {NoWish} /\ wk \in Working \cup {Idle}
  BY DEF Init
<1> QED BY <1>1, <1>2, <1>3 DEF TypeOK

\* Type correctness: every variable of the decorator's model stays in its type.
THEOREM TypeCorrect == Spec => []TypeOK
BY TypeInit, TypeStep, PTL DEF Spec

-----------------------------------------------------------------------------
\* While the owner keeps still, what Observe captured is what the object has.
Loyal ==
    /\ wk # Idle /\ wk.pc \in {"shadow", "late", "put"}
    /\ Active(wk.mr) /\ wk.quiet /\ wk.captured # Unobserved /\ obj # Absent
    => obj.g = wk.captured.g

\* Every step keeps the capture loyal.
LEMMA LoyalStep == TypeOK /\ Loyal /\ [Next]_vars => Loyal'
<1> SUFFICES ASSUME TypeOK, Loyal, [Next]_vars, wk' # Idle,
                    wk'.pc \in {"shadow", "late", "put"},
                    Active(wk'.mr), wk'.quiet, wk'.captured # Unobserved, obj' # Absent
             PROVE  obj'.g = wk'.captured.g
  BY DEF Loyal, Active
<1>1. CASE EditSpec
  <2>1. wk # Idle /\ wk \in Working
    BY <1>1, UnderWay DEF EditSpec
  <2> QED BY <1>1, <2>1 DEF EditSpec, Loyal, Active, Working
<1>2. CASE Decide
  BY <1>2 DEF Decide, Loyal, Active
<1>3. CASE Assert
  <2>1. wk # Idle /\ wk \in Working
    BY <1>3, UnderWay DEF Assert
  <2> QED BY <1>3, <2>1 DEF Assert, Working
<1>4. CASE Drift
  <2>1. obj \in Object /\ obj'.g = obj.g
    BY <1>4 DEF Drift, TypeOK, Object
  <2> QED BY <1>4, <2>1 DEF Drift, Loyal, Active
<1>5. CASE Begin
  BY <1>5 DEF Begin
<1>6. CASE Observe
  <2>1. wk \in Working
    BY <1>6, UnderWay DEF Observe, At, Calls
  <2>2. obj # Absent
    BY <1>6, <2>1 DEF Observe, Go, Working
  <2>3. wk'.mr = Copy /\ wk'.captured = snapshot(Copy)
    BY <1>6, <2>1, <2>2 DEF Observe, Copy, Working
  <2>4. wk'.captured = observeFromRecordA(obj)
    BY <2>1, <2>2, <2>3, CopyType
  <2> QED BY <1>6, <2>4 DEF Observe, observeFromRecordA
<1>7. CASE ObserveShadow
  <2>1. wk \in Working /\ wk # Idle
    BY <1>7, UnderWay DEF ObserveShadow, At, Calls
  <2> QED BY <1>7, <2>1 DEF ObserveShadow, At, Loyal, Active, Working
<1>8. CASE LateInit
  <2>1. wk \in Working /\ wk # Idle
    BY <1>8, UnderWay DEF LateInit, At, Calls
  <2>2. wk.fresh /\ wk'.captured = wk.captured /\ wk'.quiet = wk.quiet
    BY <1>8, <2>1 DEF LateInit, Working
  <2> DEFINE r == [wk.mr EXCEPT !.at = cr.at]
  <2>4. r.mode = wk.mr.mode /\ r.ignore = wk.mr.ignore
    BY <2>1 DEF Working, Managed
  <2>5. wk' = [wk EXCEPT !.mr = r, !.pc = AfterObserve(FALSE, wk.synced)]
    BY <1>8, <2>2 DEF LateInit
  <2> HIDE DEF r
  <2>3. wk'.mr.mode = wk.mr.mode /\ wk'.mr.ignore = wk.mr.ignore
    BY <2>1, <2>4, <2>5 DEF Working
  <2> QED BY <1>8, <2>1, <2>2, <2>3 DEF LateInit, At, Loyal, Active
<1>9. CASE Create
  BY <1>9, UnderWay DEF Create, Go, At, Calls, Working
<1>10. CASE Update
  BY <1>10, UnderWay DEF Update, Go, At, Calls, Working
<1>11. CASE Disconnect
  BY <1>11 DEF Disconnect
<1>12. CASE Abort
  BY <1>12 DEF Abort
<1>13. CASE UNCHANGED vars
  BY <1>13 DEF vars, Loyal, Active
<1> QED
  BY <1>1, <1>2, <1>3, <1>4, <1>5, <1>6, <1>7, <1>8, <1>9, <1>10, <1>11, <1>12, <1>13
     DEF Next, Reconcile

\* A PUT leaves the ignored field as it was captured, hence as it is.
LEMMA LoyalPut ==
    TypeOK /\ Loyal /\ [Next]_vars
      => (ActivePut /\ wk.quiet /\ wk.captured # Unobserved => obj'.g = obj.g)
<1> SUFFICES ASSUME TypeOK, Loyal, [Next]_vars, ActivePut, wk.quiet,
                    wk.captured # Unobserved
             PROVE  obj'.g = obj.g
  OBVIOUS
<1>1. wk \in Working /\ wk # Idle
  BY UnderWay DEF ActivePut, At, Calls
<1>2. obj.g = wk.captured.g
  BY <1>1 DEF ActivePut, At, Loyal
<1>3. CASE Update
  <2>1. strOrEmpty(apply(wk.mr, IF Active(wk.mr) THEN wk.captured ELSE Unobserved).g)
          = wk.captured.g
    BY <1>1, Sent DEF ActivePut
  <2> QED BY <1>2, <1>3, <2>1 DEF Update, ActivePut
<1>4. CASE ~Update
  <2>1. wk'.pc # "status"
    <3>1. At("put")
      BY DEF ActivePut
    <3>2. CASE EditSpec
      BY <1>1, <3>1, <3>2 DEF EditSpec, At, Working
    <3>3. CASE Assert
      BY <1>1, <3>1, <3>3 DEF Assert, At, Working
    <3>4. CASE Decide \/ Drift \/ UNCHANGED vars
      BY <3>1, <3>4 DEF Decide, Drift, vars, At
    <3>5. CASE Abort
      BY <3>5 DEF Abort, Idle
    <3> QED
      BY <1>1, <1>4, <3>1, <3>2, <3>3, <3>4, <3>5
         DEF Next, Reconcile, Begin, Observe, ObserveShadow, LateInit, Create,
             Disconnect, At
  <2> QED BY <2>1 DEF ActivePut
<1> QED BY <1>3, <1>4

\* Update leaves an ignored field that the Grid reported as its owner set it,
\* unless the owner wrote it after Observe had read it.
THEOREM KeepsOwnerHolds == Spec => KeepsOwner
<1>1. Init => Loyal
  BY DEF Init, Loyal
<1>2. Spec => []Loyal
  BY <1>1, TypeCorrect, LoyalStep, PTL DEF Spec
<1> QED BY <1>2, TypeCorrect, LoyalPut, PTL DEF Spec, KeepsOwner
=============================================================================
