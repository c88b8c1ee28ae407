--------------------------- MODULE DriftDetection ---------------------------
(***************************************************************************)
(* Field ownership: the decorator of internal/driftdetection around the    *)
(* ARecord client, for one managed resource and its object.  Field f is    *)
(* the resource's own; field g is one that spec.driftDetection.ignore may  *)
(* hand over to somebody else, the external owner, who writes it in the    *)
(* Grid.  The owner, users, administrators and failures come in between    *)
(* any two calls of a reconcile.  How the object is found is ARecord's     *)
(* business: here its reference does not change.                           *)
(***************************************************************************)
EXTENDS Naturals

CONSTANTS
    OwnVal,     \* values of f
    Val,        \* values of g
    Empty,      \* the empty one
    Nil,        \* a field the spec leaves unset
    Ignorable,  \* what g is: "comment" or "extAttrs"
    SpecVal,    \* what users set g to
    Modes,      \* the values of mode users choose
    Wishes,     \* what the owner wants g to be
    NoWish,     \* there is no owner
    Absent,     \* there is no object
    Unobserved, \* status.atProvider has no counterpart of g
    MaxEdits, MaxWishes, MaxDrifts, MaxAborts

ASSUME DriftConstants ==
    /\ Empty \in Val /\ Nil \notin Val /\ NoWish \notin Val
    /\ Ignorable \in {"comment", "extAttrs"}
    /\ SpecVal \subseteq Val \cup {Nil} /\ Wishes \subseteq Val
    /\ Modes \subseteq {"enabled", "warn", "disabled"}
    /\ {MaxEdits, MaxWishes, MaxDrifts, MaxAborts} \subseteq Nat
    /\ Absent \notin [f : OwnVal, g : Val, stamped : BOOLEAN]
    /\ Unobserved \notin [g : Val, stamp : BOOLEAN]

VARIABLES
    obj,   \* the object in the Grid; stamped: it carries our identity
    wish,  \* what its owner wants g to be
    cr,    \* the managed resource
    wk,    \* its reconcile under way
    left   \* edits, wishes, drifts and failures left

vars == <<obj, wish, cr, wk, left>>

Object == [f : OwnVal, g : Val, stamped : BOOLEAN]

\* g as status.atProvider mirrors it; stamp: the reserved identity attribute is
\* one of the extensible attributes it shows.
Mirrored == [g : Val, stamp : BOOLEAN] \cup {Unobserved}

\* at is status.atProvider's g; ignore: g is among the ignored paths.
Managed == [f : OwnVal, g : Val \cup {Nil}, mode : {"enabled", "warn", "disabled"},
            ignore : BOOLEAN, at : Mirrored]

\* mr is the reconcile's copy, fresh while nobody else has written the
\* resource; quiet: nobody else has written g since Observe read it.
Working == [pc : {"observe", "shadow", "create", "late", "put", "status"}, mr : Managed,
            fresh : BOOLEAN, captured : Mirrored, late : BOOLEAN, synced : BOOLEAN,
            quiet : BOOLEAN]
Idle    == [pc |-> "idle"]

TypeOK ==
    /\ obj \in Object \cup {Absent}
    /\ wish \in Val \cup {NoWish}
    /\ cr \in Managed
    /\ wk \in Working \cup {Idle}
    /\ left \in [{"edit", "wish", "drift", "abort"} -> Nat]

Spec0 == [f : OwnVal, g : SpecVal, mode : Modes, ignore : BOOLEAN, at : {Unobserved}]

Init ==
    /\ obj \in {o \in Object : ~o.stamped} \cup {Absent}
    /\ wish = NoWish
    /\ cr \in Spec0
    /\ wk = Idle
    /\ left = [edit |-> MaxEdits, wish |-> MaxWishes, drift |-> MaxDrifts,
               abort |-> MaxAborts]

Spend(k) == left[k] > 0 /\ left' = [left EXCEPT ![k] = @ - 1]

-----------------------------------------------------------------------------
(***************************************************************************)
(* Everybody else.                                                         *)
(***************************************************************************)
EditSpec ==
    /\ Spend("edit")
    /\ \E f \in OwnVal, g \in SpecVal, mode \in Modes, ignore \in BOOLEAN :
         cr' = [cr EXCEPT !.f = f, !.g = g, !.mode = mode, !.ignore = ignore]
    /\ cr' # cr
    /\ wk' = IF wk = Idle THEN wk ELSE [wk EXCEPT !.fresh = FALSE]
    /\ UNCHANGED <<obj, wish>>

\* The owner makes up its mind ...
Decide ==
    /\ Spend("wish")
    /\ wish' \in Wishes \ {wish}
    /\ UNCHANGED <<obj, cr, wk>>

\* ... and (re)asserts its value whenever it finds another one.
Assert ==
    /\ obj # Absent /\ wish # NoWish /\ obj.g # wish
    /\ obj' = [obj EXCEPT !.g = wish]
    /\ wk' = IF wk = Idle THEN wk ELSE [wk EXCEPT !.quiet = FALSE]
    /\ UNCHANGED <<wish, cr, left>>

\* An administrator changes f, or deletes the object.
Drift ==
    /\ obj # Absent /\ Spend("drift")
    /\ \/ \E f \in OwnVal \ {obj.f} : obj' = [obj EXCEPT !.f = f]
       \/ obj' = Absent
    /\ UNCHANGED <<wish, cr, wk>>

-----------------------------------------------------------------------------
(***************************************************************************)
(* The wrapped client, as far as f and g go.                               *)
(***************************************************************************)
\* observeFromRecordA leaves an empty comment out of status.atProvider; the
\* extensible attributes it mirrors completely.
observeFromRecordA(o) ==
    IF Ignorable = "comment" /\ o.g = Empty THEN Unobserved
    ELSE [g |-> o.g, stamp |-> Ignorable = "extAttrs" /\ o.stamped]

\* An unset field; no attributes at all are as good as unset.
Unset(v) == v = Nil \/ (Ignorable = "extAttrs" /\ v = Empty)

lateInitialize(v, o) == IF Unset(v) /\ o.g # Empty THEN o.g ELSE v

\* Mutant: an unset field is sent as it is.
strOrEmpty_raw(v) == v

strOrEmpty(v) == IF v = Nil THEN Empty ELSE v

\* A value of g in a spec, to be compared or sent; stamp: with the identity
\* attribute among the attributes.
Field(v, stamp) == [g |-> v, stamp |-> stamp]

\* The object's attributes are compared without the identity stamp, the spec's
\* as they are; an object without a stamp is never up to date.
isUpToDate(f, x, o) == o.f = f /\ strOrEmpty(x.g) = o.g /\ ~x.stamp /\ o.stamped

innerObserve(f, x, o) ==
    isUpToDate(f, IF x.stamp THEN x ELSE Field(lateInitialize(x.g, o), FALSE), o)

-----------------------------------------------------------------------------
(***************************************************************************)
(* The decorator.                                                          *)
(***************************************************************************)
\* Mutant: the spec's own value is compared and sent.
apply_spec(r, captured) == Field(r.g, FALSE)

\* The value of g in the shadow: the observed one if there is one.
apply(r, captured) == IF captured = Unobserved THEN Field(r.g, FALSE) ELSE captured

snapshot(r) == IF r.ignore THEN r.at ELSE Unobserved

\* The resource hands g over and drift is corrected.
Active(r) == r.mode = "enabled" /\ r.ignore

Begin ==
    /\ wk = Idle
    /\ wk' = [pc |-> "observe", mr |-> cr, fresh |-> TRUE, captured |-> Unobserved,
              late |-> FALSE, synced |-> FALSE, quiet |-> TRUE]
    /\ UNCHANGED <<obj, wish, cr, left>>

At(p) == wk.pc = p
Go(p) == wk' = [wk EXCEPT !.pc = p]

\* Where an observation leads: the late-initialised copy is written first.
AfterObserve(late, synced) ==
    CASE late -> "late"
      [] ~late /\ synced -> "status"
      [] ~late /\ ~synced -> "put"

(***************************************************************************)
(* Observe: the inner Observe, the snapshot, and the verdict by mode.      *)
(***************************************************************************)
\* Mutant: drift is corrected before the ignored paths are looked at.
Observe_noShadow ==
    /\ At("observe")
    /\ \/ obj = Absent /\ Go("create")
       \/ /\ obj # Absent
          /\ LET r      == [wk.mr EXCEPT !.g = lateInitialize(@, obj),
                                         !.at = observeFromRecordA(obj)]
                 late   == r.g # wk.mr.g
                 report == r.mode # "enabled" \/ isUpToDate(r.f, Field(r.g, FALSE), obj)
             IN  wk' = [wk EXCEPT !.mr = r, !.captured = snapshot(r), !.late = late,
                                  !.synced = report, !.quiet = TRUE,
                                  !.pc = AfterObserve(late, report)]
    /\ UNCHANGED <<obj, wish, cr, left>>

Observe ==
    /\ At("observe")
    /\ \/ obj = Absent /\ Go("create")
       \/ /\ obj # Absent
          /\ LET r      == [wk.mr EXCEPT !.g = lateInitialize(@, obj),
                                         !.at = observeFromRecordA(obj)]
                 late   == r.g # wk.mr.g
                 synced == isUpToDate(r.f, Field(r.g, FALSE), obj)
                 report == r.mode # "enabled" \/ synced
             IN  wk' = [wk EXCEPT !.mr = r, !.captured = snapshot(r), !.late = late,
                                  !.synced = report, !.quiet = TRUE,
                                  !.pc = IF Active(r) /\ ~synced THEN "shadow"
                                         ELSE AfterObserve(late, report)]
    /\ UNCHANGED <<obj, wish, cr, left>>

\* The second inner Observe, of the shadow.  An object that is gone by now is
\* not up to date.
ObserveShadow ==
    /\ At("shadow")
    /\ LET synced == obj # Absent /\ innerObserve(wk.mr.f, apply(wk.mr, wk.captured), obj)
       IN  wk' = [wk EXCEPT !.synced = synced, !.pc = AfterObserve(wk.late, synced)]
    /\ UNCHANGED <<obj, wish, cr, left>>

(***************************************************************************)
(* The runtime's write of the late-initialised resource.  The API server   *)
(* answers with the status it has, which replaces the copy's.              *)
(***************************************************************************)
LateInit ==
    /\ At("late")
    /\ IF wk.fresh
       THEN /\ cr' = [cr EXCEPT !.g = wk.mr.g]
            /\ wk' = [wk EXCEPT !.mr = [wk.mr EXCEPT !.at = cr.at],
                                !.pc = AfterObserve(FALSE, wk.synced)]
       ELSE wk' = Idle /\ UNCHANGED cr
    /\ UNCHANGED <<obj, wish, left>>

Create ==
    /\ At("create")
    /\ obj' = [f |-> wk.mr.f, g |-> strOrEmpty(wk.mr.g), stamped |-> TRUE]
    /\ Go("status")
    /\ UNCHANGED <<wish, cr, left>>

\* Mutant: Update reads status.atProvider again.
Update_rereads ==
    /\ At("put")
    /\ obj' = IF obj = Absent THEN Absent
              ELSE LET x == apply(wk.mr, IF Active(wk.mr) THEN wk.mr.at ELSE Unobserved)
                   IN  [f |-> wk.mr.f, g |-> strOrEmpty(x.g), stamped |-> TRUE]
    /\ Go("status")
    /\ UNCHANGED <<wish, cr, left>>

\* Update: one PUT of every field and the stamp; on an object that is gone it
\* fails.
Update ==
    /\ At("put")
    /\ obj' = IF obj = Absent THEN Absent
              ELSE LET x == apply(wk.mr, IF Active(wk.mr) THEN wk.captured ELSE Unobserved)
                   IN  [f |-> wk.mr.f, g |-> strOrEmpty(x.g), stamped |-> TRUE]
    /\ Go("status")
    /\ UNCHANGED <<wish, cr, left>>

\* Every reconcile ends with a write of the status, which a stale copy loses,
\* and with Disconnect.
Disconnect ==
    /\ At("status")
    /\ cr' = IF wk.fresh THEN [cr EXCEPT !.at = wk.mr.at] ELSE cr
    /\ wk' = Idle
    /\ UNCHANGED <<obj, wish, left>>

\* A crash, a failed call or a lost answer.  A creation cut short here has its failure on
\* record; ARecord and Lifecycle have the one that has not.
Abort ==
    /\ wk # Idle /\ Spend("abort")
    /\ wk' = Idle
    /\ UNCHANGED <<obj, wish, cr>>

Reconcile == \/ Begin \/ Observe \/ ObserveShadow \/ LateInit \/ Create \/ Update
             \/ Disconnect

Next == EditSpec \/ Decide \/ Assert \/ Drift \/ Reconcile \/ Abort

Spec == Init /\ [][Next]_vars

(***************************************************************************)
(* The work queue reconciles again and again, and between two reconciles   *)
(* the owner gets a pass.                                                  *)
(***************************************************************************)
FairSpec == Spec /\ WF_vars(Reconcile) /\ SF_vars(Assert /\ wk = Idle)

-----------------------------------------------------------------------------
\* The PUT of a reconcile to which g is not the resource's to write.
ActivePut == At("put") /\ wk'.pc = "status" /\ Active(wk.mr) /\ obj # Absent

\* Update leaves an ignored field that the Grid reported as its owner set it,
\* whatever was edited, drifted or late-initialised during the reconcile, unless
\* the owner wrote it after Observe had read it.
KeepsOwner ==
    [][ActivePut /\ wk.quiet /\ wk.captured # Unobserved => obj'.g = obj.g]_vars

\* g belongs to one side only, and drift is corrected.
Settled == cr.mode = "enabled" /\ (cr.ignore \/ wish = NoWish)

\* In the end the object has our f and identity, and the owner's g, or ours if
\* there is no owner.
Agreed ==
    /\ obj # Absent /\ obj.stamped /\ obj.f = cr.f
    /\ cr.ignore /\ wish # NoWish => obj.g = wish
    /\ ~cr.ignore => obj.g = strOrEmpty(cr.g)

Settles == <>[]Settled => <>[]Agreed

\* Drift of the ignored field alone never makes the provider write for ever.
WritesEnd == <>[]Settled => <>[]~At("put")
=============================================================================
