----------------------------- MODULE FieldSync ------------------------------
(***************************************************************************)
(* The fields of one managed resource and of its object in the Grid, and   *)
(* what a reconcile makes of them: Observe fills unset fields in, compares *)
(* and shows the object in the status; the runtime saves the status or     *)
(* what was filled in; Create and Update send.                             *)
(* A slice is what is looked at: a field of a kind, together with the flag *)
(* that governs it or the field that has the Grid choose it; fields that   *)
(* are not so related do not touch one another.  All the others are one    *)
(* bit: whether they call for an Update.  How the object is found is       *)
(* ARecord's subject.                                                      *)
(***************************************************************************)
EXTENDS Fields, Naturals

CONSTANTS
    Slices,  \* [kind, fields, table]: what is looked at
    Absent,  \* there is no object
    FaceValued, \* the types of entry that are compared at face value
    MaxEdits, MaxDrifts, MaxAborts

ASSUME FieldSyncConstants == {MaxEdits, MaxDrifts, MaxAborts} \subseteq Nat

VARIABLES
    slice,  \* the fields looked at
    spec,   \* spec.forProvider in the API server
    wish,   \* what users last wrote into it
    obj,    \* the object's own values
    other,  \* the object differs from the spec in another field
    status, \* status.atProvider, if there is one
    wk,     \* the reconcile under way
    quiet,  \* nothing was written since the provider wrote the object
    left    \* edits, drifts and failures left

vars == <<slice, spec, wish, obj, other, status, wk, quiet, left>>

k == slice.table
F == slice.fields

Idle == [pc |-> "idle"]

-----------------------------------------------------------------------------
(***************************************************************************)
(* Helpers of the controllers.                                             *)
(***************************************************************************)
\* Mutant: an unset field is sent as it is.
OrZero_raw(v) == v

\* boolOrFalse, uint32OrZero, strOrEmpty; a list as it is.
OrZero(v) == IF v = Unset THEN Empty ELSE v

\* Nothing that lateInitialize would keep.
IsUnset(f, v) == v = Unset \/ (v = Empty /\ f \in Lists)

\* The field counts: it has no use flag, or that is on.
Governed(f, x) == f \in DOMAIN k.gate => x[k.gate[f]] = On

\* A flag that is forced is on as soon as something that it governs is set.
Effective(x) ==
    [f \in F |-> IF f \in k.forced /\ \E g \in F : g \in DOMAIN k.gate /\ k.gate[g] = f
                                                  /\ x[g] # Unset
                 THEN On ELSE x[f]]

\* What a request says: flags that are joined are on as soon as one of them is.
Requested(x) ==
    LET e == Effective(x)
    IN  [f \in F |-> IF f \in k.joined /\ \E g \in F \cap k.joined : e[g] = On THEN On ELSE e[f]]

\* What the controller makes of a GET's answer.
Reported(o) ==
    LET answer == [f \in F |-> IF f \notin k.returned THEN Unset
                               ELSE IF Governed(f, o) THEN o[f] ELSE Inherited(f)]
    IN  [f \in F |-> IF answer[f] \in DOMAIN k.attributes THEN k.attributes[answer[f]]
                     ELSE IF f \in k.blank /\ answer[f] = Empty THEN Unset
                     ELSE answer[f]]

\* The status: an empty string or list is left out.
Shown(x, s) ==
    [f \in F |-> IF f \in k.echoed THEN x[f]
                 ELSE IF f \in k.mirrored /\ (s[f] # Empty \/ f \in Scalars) THEN s[f]
                 ELSE Unset]

\* A string or a list is filled in only if there is one; a flag or a number always.
FillIn(f, v, s) ==
    IF /\ f \in k.late /\ IsUnset(f, v) /\ s[f] # Unset
       /\ s[f] # Empty \/ f \in Scalars
    THEN s[f] ELSE v

\* The use flags come first; what they govern is filled in where they are on.
lateInitialize(x, s) ==
    LET flagged == [f \in F |-> IF f \in DOMAIN k.gate THEN x[f] ELSE FillIn(f, x[f], s)]
    IN  [f \in F |-> IF f \in DOMAIN k.gate /\ Governed(f, Effective(flagged))
                     THEN FillIn(f, x[f], s) ELSE flagged[f]]

isUpToDate(x, s) ==
    LET e == Effective(x)
    IN  \A f \in F \cap k.compared :
            \/ IF f \in k.deep THEN e[f] = s[f] ELSE OrZero(e[f]) = OrZero(s[f])
            \/ ~Governed(f, e) /\ f \notin k.ungated
            \/ f \in k.whenReported /\ OrZero(s[f]) = Empty
            \/ f \in k.whenSet /\ IsUnset(f, e[f])

\* Whether a request carries the field.
Sends(f, x, sent) ==
    /\ f \in sent
    /\ f \in k.omitsUnset => x[f] # Unset
    /\ f \in k.omitsEmpty \cup Givens => OrZero(x[f]) # Empty

-----------------------------------------------------------------------------
(***************************************************************************)
(* The Grid.  A PUT replaces what it carries and leaves the rest alone; a  *)
(* value whose use flag is off is ignored.  What a POST leaves out gets    *)
(* some value, and so does an address to be chosen from a CIDR.            *)
(***************************************************************************)
Put(o, x) ==
    LET r       == Requested(x)
        flagged == [f \in F |-> IF Sends(f, r, k.updated) THEN OrZero(r[f]) ELSE o[f]]
    IN  [f \in F |-> IF Governed(f, flagged) THEN flagged[f] ELSE o[f]]

Object == {o \in [F -> {Empty, On, "a", "b", Several}] : \A f \in F : o[f] \in Holds(f)}

Posts(x) ==
    LET r == Requested(x)
    IN  {o \in Object : \A f \in F : Sends(f, r, k.created) /\ Governed(f, o)
                                        => o[f] = OrZero(r[f])}

-----------------------------------------------------------------------------
(***************************************************************************)
(* What users may write: a required string is not empty, unless it is an   *)
(* address that the Grid is to choose.                                     *)
(***************************************************************************)
Settable(f) ==
    IF f \notin k.required THEN Values(f) \cup {Unset}
    ELSE IF f \in Scalars \cup DOMAIN k.cidr THEN Values(f)
    ELSE Values(f) \ {Empty}

Specs == {x \in [F -> {Unset, Empty, On, "a", "b"}] : \A f \in F : x[f] \in Settable(f)}

\* The address is fixed, and there is a CIDR to choose one from.
Contradicts(x) ==
    \E f \in DOMAIN k.cidr \cap F : OrZero(x[f]) # Empty /\ OrZero(x[k.cidr[f]]) # Empty

\* An imported object differs from the spec only where it may be changed.
Adoptable(x) == {o \in Object : \A f \in F \cap k.immutable : x[f] \in {o[f], Unset}}

Working == [pc : {"late", "create", "update"}, x : Specs, user : Specs,
            seen : [F -> {Unset, Empty, On, "a", "b"}] \cup {Absent}, synced : BOOLEAN, fresh : BOOLEAN]

TypeOK ==
    /\ spec \in Specs /\ wish \in Specs
    /\ obj \in Object \cup {Absent}
    /\ status \in [F -> {Unset, Empty, On, "a", "b"}] \cup {Absent}
    /\ wk \in Working \cup {Idle}
    /\ other \in BOOLEAN /\ quiet \in BOOLEAN
    /\ left \in [{"edit", "drift", "abort"} -> Nat]

Init ==
    /\ slice \in Slices
    /\ spec \in Specs /\ ~Contradicts(spec) /\ wish = spec
    /\ obj \in Adoptable(spec) \cup {Absent}
    /\ other = FALSE /\ quiet = FALSE /\ wk = Idle /\ status = Absent
    /\ left = [edit |-> MaxEdits, drift |-> MaxDrifts, abort |-> MaxAborts]

Spend(c) == left[c] > 0 /\ left' = [left EXCEPT ![c] = @ - 1]

-----------------------------------------------------------------------------
\* A user sets or unsets a field that may change, or one that is not looked at.
EditSpec ==
    /\ Spend("edit")
    /\ \/ \E f \in F \ k.immutable : \E v \in Settable(f) \ {spec[f]} :
            /\ spec' = [spec EXCEPT ![f] = v]
            /\ wish' = [wish EXCEPT ![f] = v]
            /\ UNCHANGED other
       \/ other' = TRUE /\ UNCHANGED <<spec, wish>>
    /\ quiet' = FALSE
    /\ wk' = IF wk = Idle THEN Idle ELSE [wk EXCEPT !.fresh = FALSE]
    /\ UNCHANGED <<slice, obj, status>>

\* An administrator changes the object, or deletes it.
Drift ==
    /\ obj # Absent /\ Spend("drift")
    /\ \/ \E f \in F \ k.immutable : \E v \in Holds(f) \ {obj[f]} :
            obj' = [obj EXCEPT ![f] = v] /\ UNCHANGED other
       \/ obj' = Absent /\ other' = FALSE
       \/ other' = TRUE /\ UNCHANGED obj
    /\ quiet' = FALSE
    /\ UNCHANGED <<slice, spec, wish, status, wk>>

-----------------------------------------------------------------------------
Work(pc, x, s, synced) ==
    wk' = [pc |-> pc, x |-> x, user |-> spec, seen |-> s, synced |-> synced, fresh |-> TRUE]

\* Mutant: the status is set only once it is known that an Update is due.
Observe_late ==
    /\ wk = Idle
    /\ UNCHANGED <<slice, spec, wish, obj, other, status, quiet, left>>
    /\ \/ obj = Absent /\ Work("create", spec, Absent, FALSE)
       \/ /\ obj # Absent
          /\ LET s      == Reported(obj)
                 x      == lateInitialize(spec, s)
                 synced == isUpToDate(x, s) /\ ~other
             IN  \/ x # spec /\ Work("late", x, s, synced)
                 \/ x = spec /\ ~synced /\ Work("update", x, s, synced)
                 \/ x = spec /\ synced /\ UNCHANGED wk

\* The status is saved at the end of a reconcile: at once if nothing is to be done.
Observe ==
    /\ wk = Idle
    /\ UNCHANGED <<slice, spec, wish, obj, other, quiet, left>>
    /\ \/ obj = Absent /\ Work("create", spec, Absent, FALSE) /\ UNCHANGED status
       \/ /\ obj # Absent
          /\ LET s      == Reported(obj)
                 x      == lateInitialize(spec, s)
                 synced == isUpToDate(x, s) /\ ~other
             IN  \/ x # spec /\ Work("late", x, s, synced) /\ UNCHANGED status
                 \/ x = spec /\ ~synced /\ Work("update", x, s, synced) /\ UNCHANGED status
                 \/ x = spec /\ synced /\ status' = Shown(x, s) /\ UNCHANGED wk

\* The runtime saves what was filled in, unless the resource has changed.  The API
\* server answers with the status as it was, and that replaces what Observe has set.
LateInit ==
    /\ wk.pc = "late"
    /\ UNCHANGED <<slice, wish, obj, other, status, quiet, left>>
    /\ spec' = IF wk.fresh THEN wk.x ELSE spec
    /\ wk' = IF wk.fresh /\ ~wk.synced THEN [wk EXCEPT !.pc = "update"] ELSE Idle

\* A contradictory spec, and an object that is there by now, are refused.
Create ==
    /\ wk.pc = "create"
    /\ UNCHANGED <<slice, spec, wish, status, left>>
    /\ IF obj = Absent /\ ~Contradicts(wk.x)
       THEN obj' \in Posts(wk.x) /\ other' = FALSE /\ quiet' = wk.fresh
       ELSE UNCHANGED <<obj, other, quiet>>
    /\ wk' = Idle

\* On an object that is gone it fails.  The status is what Observe saw before.
Update ==
    /\ wk.pc = "update"
    /\ UNCHANGED <<slice, spec, wish, left>>
    /\ IF obj # Absent
       THEN obj' = Put(obj, wk.x) /\ other' = FALSE /\ quiet' = wk.fresh
       ELSE UNCHANGED <<obj, other, quiet>>
    /\ status' = IF wk.fresh /\ wk.x = wk.user THEN Shown(wk.x, wk.seen) ELSE status
    /\ wk' = Idle

\* A crash, or a call that failed.  A creation cut short here has its failure on record:
\* the one that has not, and waits for a person, is the subject of ARecord and Lifecycle.
Abort ==
    /\ wk # Idle /\ Spend("abort")
    /\ wk' = Idle
    /\ UNCHANGED <<slice, spec, wish, obj, other, status, quiet>>

Reconcile == Observe \/ LateInit \/ Create \/ Update

Next == EditSpec \/ Drift \/ Reconcile \/ Abort

Spec == Init /\ [][Next]_vars

\* The work queue reconciles again and again.
FairSpec == Spec /\ WF_vars(Reconcile)

-----------------------------------------------------------------------------
\* Writing the field is of no use: the Grid ignores it, since its flag is off, or cannot
\* tell it from what it has.  That is so of the entries known to be compared at face
\* value, and of no others.
Futile(x, s) ==
    /\ slice.kind[1] \in FaceValued
    /\ \E f \in F :
        \/ f \in k.ungated /\ ~Governed(f, x)
        \/ f \in k.deep /\ x[f] # s[f] /\ OrZero(x[f]) = OrZero(s[f])

\* The spec sets flags apart that a request joins: it is not to be had, and the provider
\* never stops trying.
Torn(x) == \E f, g \in F \cap k.joined : x[f] = On /\ x[g] # On

\* What the provider has written it is content with: as long as nobody else
\* writes, the next Observe calls for no Update, unless that would be futile or the spec
\* is torn.
PutSettles ==
    quiet /\ obj # Absent =>
        LET s == Reported(obj)
            x == lateInitialize(spec, s)
        IN  (isUpToDate(x, s) \/ Futile(x, s) \/ Torn(spec)) /\ ~other

\* A user of an imported resource compares its spec with the status before allowing the
\* provider to write.  Where every field that the spec sets, or that is the user's
\* alone, agrees with what the status shows, nothing that is of use will be written.
Agrees(x, shown) ==
    LET e == Effective(x)
    IN  \A f \in F : f \in k.owned \/ ~IsUnset(f, e[f]) => OrZero(e[f]) = OrZero(shown[f])

Comparable ==
    obj # Absent /\ ~other =>
        LET s == Reported(obj)
            x == lateInitialize(spec, s)
        IN  Agrees(spec, Shown(spec, s)) => isUpToDate(x, s) \/ Futile(x, s)

\* An Update for the sake of one field leaves another one that the user has not
\* set as it is, or as Observe saw it.
LeavesAlone ==
    [][wk.pc = "update" /\ wk' = Idle /\ obj # Absent =>
         \A f \in F \ (k.owned \cup k.forced) :
            IsUnset(f, wk.user[f]) /\ Governed(f, obj') => obj'[f] \in {obj[f], wk.seen[f]}]_vars

\* In the end the object has what the user asked for, save for a flag that is forced on
\* or is sent as on since another one is,
\* and unless Create refuses the spec, as it refuses to create once more what got its
\* address from a CIDR.
Asked(f) ==
    /\ f \in (k.updated \cup k.immutable) \ k.whenReported
    /\ ~IsUnset(f, wish[f])
    /\ Requested(spec)[f] = spec[f]

Obeyed ==
    /\ obj # Absent \/ Contradicts(spec)
    /\ obj # Absent => \A f \in F : Asked(f) /\ Governed(f, spec) =>
                                        OrZero(Reported(obj)[f]) = wish[f]

Obeys == <>[]Obeyed

\* In the end the provider stops writing, or what it writes is futile, or torn.
WritesEnd == <>[](wk.pc = "update" => Futile(wk.x, wk.seen) \/ Torn(wk.x))

\* In the end the status shows the object as it is.
Mirrors == <>[](obj # Absent => status = Shown(spec, Reported(obj)))
=============================================================================
