------------------------- MODULE References_proofs --------------------------
(***************************************************************************)
(* Placed and Kept, for every kind with a reference, every set of names    *)
(* and any number of edits and failures.  Both rest on one fact about the  *)
(* reconcile under way: it has a value, since a reference that was not     *)
(* resolved ends it (Resolved).                                            *)
(***************************************************************************)
EXTENDS References, TLAPS

\* A reconcile that is past ResolveReferences is one of these.
LEMMA UnderWay == ASSUME TypeOK, wk.pc # "idle" PROVE wk \in Working
  BY DEF TypeOK, Working, Idle

\* What extraction finds is a designation.
LEMMA Extracted ==
    ASSUME TypeOK, target # None, Extract # None PROVE Extract \in Designations
<1>1. target.name \in Name \cup {None} /\ target.ext \in Designations \cup {None}
  BY DEF TypeOK
<1> QED
  BY <1>1 DEF Extract, Designations

-----------------------------------------------------------------------------
\* Types, one step per group of actions.
LEMMA TypeStep == TypeOK /\ Resolved /\ [Next]_vars => TypeOK'
<1> SUFFICES ASSUME TypeOK, Resolved, [Next]_vars PROVE TypeOK'
  OBVIOUS
<1> USE DEF Working, Referrers
<1>1. CASE UNCHANGED vars
  BY <1>1 DEF vars, TypeOK
<1>2. ASSUME Spend PROVE edits' \in 0..MaxEdits
  BY <1>2, ReferencesConstants DEF TypeOK, Spend
<1>3. CASE NewTarget
  <2>1. target' \in [name : Name \cup {None}, ext : Designations \cup {None}]
    BY <1>3 DEF NewTarget
  <2> QED BY <1>3, <2>1 DEF NewTarget, TypeOK
<1>4. CASE RenameTarget
  <2>1. target' \in [name : Name \cup {None}, ext : Designations \cup {None}]
    BY <1>4 DEF RenameTarget, TypeOK
  <2> QED BY <1>2, <1>4, <2>1 DEF RenameTarget, TypeOK
<1>5. CASE DeleteTarget
  BY <1>2, <1>5 DEF DeleteTarget, TypeOK
<1>6. CASE NewReferrer
  BY <1>6 DEF NewReferrer, TypeOK
<1>7. CASE Clear
  <2>1. mr' \in Referrers
    BY <1>7 DEF Clear, TypeOK
  <2>2. wk' \in Working \cup {Idle}
    BY <1>7 DEF Clear, TypeOK
  <2> QED BY <1>2, <1>7, <2>1, <2>2 DEF Clear, TypeOK
<1>8. CASE Initialize \/ RecordName \/ FillInName
  <2>1. grid \in Name => ByRef(grid) \in Designations
    BY DEF Designations
  <2>2. Kube \in Designations
    BY DEF Designations
  <2>3. target' \in [name : Name \cup {None}, ext : Designations \cup {None}]
    BY <1>8, <2>1, <2>2 DEF Initialize, RecordName, FillInName, TypeOK
  <2> QED BY <1>8, <2>3 DEF Initialize, RecordName, FillInName, TypeOK
<1>9. CASE CreateTarget \/ UpdateTarget
  <2>1. grid' \in Name \cup {None}
    BY <1>9 DEF CreateTarget, UpdateTarget, TypeOK
  <2> QED BY <1>9, <2>1 DEF CreateTarget, UpdateTarget, TypeOK
<1>10. CASE Resolve
  <2>1. mr.val \in Designations \cup {None}
    BY <1>10 DEF Resolve, TypeOK
  <2>2. \E q \in {"observe", "save"}, v \in Designations \cup {None} :
           wk' = [pc |-> q, val |-> v, fresh |-> TRUE]
    <3>1. CASE IsNoOp
      BY <1>10, <2>1, <3>1 DEF Resolve, Work
    <3>2. CASE ~IsNoOp
      <4>1. Extract \in Designations
        BY <1>10, <3>2, Extracted DEF Resolve
      <4>2. Work(IF Extract = mr.val THEN "observe" ELSE "save", Extract)
        BY <1>10, <3>2 DEF Resolve
      <4> QED BY <4>1, <4>2 DEF Work
    <3> QED BY <3>1, <3>2
  <2>3. wk' \in Working
    BY <2>2
  <2> QED BY <1>10, <2>3 DEF Resolve, TypeOK
<1>11. CASE SaveResolved
  <2>1. wk \in Working /\ mr \in Referrers
    BY <1>11, UnderWay DEF SaveResolved, Resolved, Idle
  <2>2. wk' \in Working \cup {Idle}
    BY <1>11, <2>1 DEF SaveResolved
  <2>3. mr' \in Referrers \cup {None}
    BY <1>11, <2>1 DEF SaveResolved
  <2> QED BY <1>11, <2>2, <2>3 DEF SaveResolved, TypeOK
<1>12. CASE Observe
  <2>1. wk \in Working
    BY <1>12, UnderWay DEF Observe
  <2>2. wk' \in Working \cup {Idle}
    BY <1>12, <2>1 DEF Observe
  <2> QED BY <1>12, <2>2 DEF Observe, TypeOK
<1>13. CASE Create \/ Update
  <2>1. wk \in Working
    BY <1>13, UnderWay DEF Create, Update
  <2>2. obj' \in Designations \cup {None, Link, Default}
    BY <1>13, <2>1 DEF Create, Update, Stored, TypeOK
  <2> QED BY <1>13, <2>2 DEF Create, Update, TypeOK
<1>14. CASE Abort
  <2>1. faults' \in 0..MaxFaults
    BY <1>14, ReferencesConstants DEF TypeOK, Abort
  <2> QED BY <1>14, <2>1 DEF Abort, TypeOK
<1> QED
  BY <1>1, <1>3, <1>4, <1>5, <1>6, <1>7, <1>8, <1>9, <1>10, <1>11, <1>12, <1>13, <1>14
     DEF Next, Users, Reconcile, Controller, Maintain

-----------------------------------------------------------------------------
\* A value never goes missing between ResolveReferences and the request.
LEMMA ResolvedStep == TypeOK /\ Resolved /\ [Next]_vars => Resolved'
<1> SUFFICES ASSUME TypeOK, Resolved, [Next]_vars PROVE Resolved'
  OBVIOUS
<1>1. CASE UNCHANGED <<mr, wk>>
  BY <1>1 DEF Resolved
<1>7. CASE NewReferrer
  BY <1>7 DEF NewReferrer, Resolved, Referrers
<1>2. CASE wk' = Idle
  BY <1>2 DEF Resolved
<1>3. CASE Clear /\ wk # Idle
  <2>1. wk \in Working /\ mr \in Referrers
    BY <1>3 DEF TypeOK, Resolved
  <2> QED BY <1>3, <2>1 DEF Clear, Resolved, Working, Referrers
<1>4. CASE Resolve
  BY <1>4 DEF Resolve, Work, IsNoOp, Resolved, TypeOK
<1>5. CASE SaveResolved /\ wk' # Idle
  <2>1. wk \in Working /\ mr \in Referrers /\ wk.val # None
    BY <1>5, UnderWay DEF SaveResolved, Resolved, Idle
  <2> QED BY <1>5, <2>1 DEF SaveResolved, Working, Referrers, Resolved
<1>6. CASE Observe /\ wk' # Idle
  <2>1. wk \in Working /\ mr \in Referrers /\ wk.val # None
    BY <1>6, UnderWay DEF Observe, Resolved, Idle
  <2> QED BY <1>6, <2>1 DEF Observe, Working, Resolved
<1> QED
  BY <1>1, <1>2, <1>3, <1>4, <1>5, <1>6, <1>7
     DEF Next, Users, Reconcile, Controller, Maintain, NewTarget, RenameTarget, DeleteTarget,
         NewReferrer, Clear, Initialize, RecordName, FillInName, CreateTarget, UpdateTarget,
         Create, Update, Abort, vars

\* Every variable keeps its type, whatever the target's external name is when it is
\* extracted; and the reconcile under way has a value.
LEMMA ReferencesInv == Spec => [](TypeOK /\ Resolved)
<1>1. Init => TypeOK /\ Resolved
  BY ReferencesConstants DEF Init, TypeOK, Resolved
<1> QED
  BY <1>1, TypeStep, ResolvedStep, PTL DEF Spec

\* Names, values and what a reconcile takes along keep their types in every interleaving
\* of the resource's reconciles with those of its target: what is saved or sent is a
\* designation that was extracted.
THEOREM TypeCorrect == Spec => []TypeOK
<1> QED BY ReferencesInv, PTL

\* The object is put somewhere by default only by a request without a value.
LEMMA PlacedStep == TypeOK /\ Resolved /\ Placed /\ [Next]_vars => Placed'
<1> SUFFICES ASSUME TypeOK, Resolved, Placed, [Next]_vars PROVE Placed'
  OBVIOUS
<1>1. CASE Create \/ Update
  <2>1. wk \in Working /\ wk.val # None
    BY <1>1, UnderWay DEF Create, Update, Resolved, Idle
  <2>2. wk.val \in Designations
    BY <2>1 DEF Working
  <2>3. wk.val # Default /\ Link # Default
    BY <2>2 DEF Designations, ByName, ByRef, Kube, Default, Link
  <2>4. Stored(wk.val) # Default
    BY <2>1, <2>3 DEF Stored
  <2> QED BY <1>1, <2>4 DEF Create, Update, Placed
<1>2. CASE ~(Create \/ Update)
  <2>1. obj' = obj
    BY <1>2 DEF Next, Users, Reconcile, Controller, Maintain, NewTarget, RenameTarget,
       DeleteTarget, NewReferrer, Clear, Initialize, RecordName, FillInName, CreateTarget,
       UpdateTarget, Resolve, SaveResolved, Observe, Abort, vars
  <2> QED BY <2>1 DEF Placed
<1> QED BY <1>1, <1>2

\* Whatever the order in which users and controllers get to target and referrer, no
\* object is created or updated without its reference: an error of ResolveReferences
\* ends the reconcile before Create.
THEOREM PlacedHolds == Spec => []Placed
<1>1. Init => Placed
  BY ReferencesConstants DEF Init, Placed
<1> QED
  BY <1>1, ReferencesInv, PlacedStep, PTL DEF Spec

\* No step but an edit of a user takes a value away that was resolved.
LEMMA KeptStep ==
    TypeOK /\ Resolved /\ [Next]_vars
      => [mr # None /\ mr.val # None /\ edits' = edits => mr'.val # None]_vars
<1> SUFFICES ASSUME TypeOK, Resolved, Next, mr # None, mr.val # None, edits' = edits
             PROVE  mr'.val # None
  BY DEF vars
<1>1. CASE SaveResolved
  <2>1. mr \in Referrers /\ wk.val # None
    BY <1>1, UnderWay DEF SaveResolved, Resolved, Idle
  <2> QED BY <1>1, <2>1 DEF SaveResolved, Referrers
<1>2. ~Clear
  BY ReferencesConstants DEF Clear, Spend, TypeOK
<1>3. CASE ~SaveResolved
  <2>1. mr' = mr
    BY <1>2, <1>3 DEF Next, Users, Reconcile, Controller, Maintain, NewTarget, RenameTarget,
       DeleteTarget, NewReferrer, Initialize, RecordName, FillInName, CreateTarget,
       UpdateTarget, Resolve, Observe, Create, Update, Abort
  <2> QED BY <2>1
<1> QED BY <1>1, <1>3

\* A reconcile never takes a resolved value back, even if its target has gone since.
THEOREM KeptHolds == Spec => Kept
<1>1. Spec => [][mr # None /\ mr.val # None /\ edits' = edits => mr'.val # None]_vars
  BY ReferencesInv, KeptStep, PTL DEF Spec
<1> QED
  BY <1>1 DEF Kept
=============================================================================
