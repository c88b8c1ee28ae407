-------------------------- MODULE FieldSync_proofs --------------------------
(***************************************************************************)
(* The safety properties of FieldSync, for every table whose functions     *)
(* agree with one another, and for any number of fields at once.           *)
(***************************************************************************)
EXTENDS FieldSync, TLAPS

-----------------------------------------------------------------------------
(***************************************************************************)
(* The conditions on the tables.  Fields says what each is; the run        *)
(* references evaluates them for every kind and every type of entry.       *)
(***************************************************************************)
\* What is compared at face value is known to be.
KnownAtFace(s) == s.table.deep \cup s.table.ungated # {} => s.kind[1] \in FaceValued

AllWellFormed == \A s \in Slices : WellFormed(s.table, s.fields)
AllAgree      == \A s \in Slices : Agree(s.table) /\ KnownAtFace(s)
AllPreserve   == \A s \in Slices : Preserves(s.table)

-----------------------------------------------------------------------------
(***************************************************************************)
(* The inductive invariant.                                                *)
(***************************************************************************)
SpecValues == {Unset, Empty, On, "a", "b"}

\* A GET of some object was answered with this.
Answers(s) == \E o \in Object : s = Reported(o)

\* What the reconcile is about to save or send was made of what it has read.
Made ==
    /\ wk.pc \in {"late", "update"} => Answers(wk.seen) /\ wk.x = lateInitialize(wk.user, wk.seen)
    /\ wk.pc \in {"create", "update"} /\ wk.fresh => spec = wk.x
    /\ wk.pc = "late" /\ wk.fresh => spec = wk.user

TypeInv == slice \in Slices /\ TypeOK /\ Made

\* The provider is content with an object.
Content(x, o) ==
    LET s == Reported(o)
        y == lateInitialize(x, s)
    IN  isUpToDate(y, s) \/ Futile(y, s)

\* What was read of an object that nobody has touched since is still so.
SettleInv ==
    /\ quiet /\ obj # Absent => (Content(spec, obj) \/ Torn(spec)) /\ ~other
    /\ quiet /\ obj # Absent /\ wk.pc \in {"late", "update"} => wk.fresh /\ wk.seen = Reported(obj)

-----------------------------------------------------------------------------
(***************************************************************************)
(* Values.                                                                 *)
(***************************************************************************)
LEMMA Distinct ==
    /\ Unset # Empty /\ Unset # On /\ Empty # On /\ Several \notin SpecValues
    /\ Unset \notin {"a", "b"} /\ Empty \notin {"a", "b"} /\ On \notin {"a", "b"}
  BY DEF Unset, Empty, On, Several, SpecValues

\* What users write is a value, and they may leave nothing out that is demanded.
LEMMA Written ==
    ASSUME NEW x \in Specs, NEW f \in F
    PROVE  /\ x[f] \in SpecValues
           /\ x[f] = Unset \/ x[f] \in Values(f)
           /\ f \in Demanded(k) => x[f] # Unset /\ (f \notin Scalars => x[f] # Empty)
  BY Distinct DEF Specs, Settable, Demanded, Values, SpecValues

LEMMA Held ==
    ASSUME NEW o \in Object, NEW f \in F
    PROVE  o[f] \in Values(f) \/ (f = "extAttrs" /\ o[f] = Several)
  BY DEF Object, Holds

LEMMA ValuesOf ==
    ASSUME NEW f
    PROVE  /\ Values(f) \subseteq {Empty, On, "a", "b"} /\ Inherited(f) \in Values(f)
           /\ f \in Givens /\ f \notin Scalars => Empty \notin Values(f)
           /\ f \in Scalars => Values(f) = {Empty, On}
  BY Distinct DEF Values, Inherited

LEMMA AnswerOf ==
    ASSUME WellFormed(k, F), NEW o \in Object, NEW f \in F
    PROVE  LET v == Reported(o)[f] IN
           /\ v \in SpecValues
           /\ v = Unset \/ v \in Values(f)
           /\ v = On /\ f \notin DOMAIN k.gate => o[f] = On
           /\ f \in k.returned /\ Governed(f, o) /\ o[f] # Several
                => v = o[f] \/ (v = Unset /\ o[f] = Empty)
           /\ f \in FillsIn(k) => v # Unset
<1> DEFINE a == IF f \notin k.returned THEN Unset
                ELSE IF Governed(f, o) THEN o[f] ELSE Inherited(f)
<1>1. Reported(o)[f] = IF a \in DOMAIN k.attributes THEN k.attributes[a]
                       ELSE IF f \in k.blank /\ a = Empty THEN Unset ELSE a
  BY DEF Reported
<1>2. a = Unset \/ a \in Values(f) \/ (f = "extAttrs" /\ f \in k.returned /\ a = Several)
  BY Held, ValuesOf
<1>3. a \in DOMAIN k.attributes => a = Several /\ k.attributes[a] = "b"
  BY DEF WellFormed
<1>4. a = Several => a \in DOMAIN k.attributes /\ f = "extAttrs"
  BY <1>2, Distinct, ValuesOf DEF WellFormed, SpecValues
<1>5. "b" \in SpecValues /\ "b" # On /\ "b" # Unset
  BY Distinct DEF SpecValues
<1>6. f = "extAttrs" => "b" \in Values(f)
  BY DEF Values, Scalars, Flags, ViewFlags, ElementFlags, Numbers, Timers, ElementNumbers
<1>7. a # Several => a \in SpecValues
  BY <1>2, ValuesOf DEF SpecValues
<1>8. f \notin DOMAIN k.gate => Governed(f, o)
  BY DEF Governed
<1>9. a = On => f \in k.returned
  BY Distinct
<1>10. f \in FillsIn(k) => f \in k.returned /\ f \notin k.blank
  BY DEF FillsIn
<1>11. f \in k.returned => a # Unset
  BY Held, ValuesOf, Distinct DEF SpecValues
<1> HIDE DEF a
<1>12. (f \in k.returned /\ Governed(f, o)) => a = o[f]
  BY DEF a
<1> DEFINE v == Reported(o)[f]
<1> HIDE DEF v
<1>13. \/ a = Several /\ v = "b" /\ f = "extAttrs"
       \/ a # Several /\ f \in k.blank /\ a = Empty /\ v = Unset
       \/ a # Several /\ ~(f \in k.blank /\ a = Empty) /\ v = a
  BY <1>1, <1>3, <1>4 DEF v
<1>14. v \in SpecValues
  BY <1>13, <1>5, <1>7 DEF SpecValues
<1>15. v = Unset \/ v \in Values(f)
  BY <1>13, <1>2, <1>6
<1>16. v = On /\ f \notin DOMAIN k.gate => o[f] = On
  BY <1>13, <1>5, <1>8, <1>9, <1>12, Distinct
<1>17. f \in k.returned /\ Governed(f, o) /\ o[f] # Several => v = o[f] \/ (v = Unset /\ o[f] = Empty)
  BY <1>13, <1>12
<1>18. f \in FillsIn(k) => v # Unset
  BY <1>13, <1>5, <1>10, <1>11
<1> QED
  BY <1>14, <1>15, <1>16, <1>17, <1>18 DEF v

-----------------------------------------------------------------------------
(***************************************************************************)
(* Filling in.  A field is filled in if its flag is on when all has been   *)
(* filled in, so that to fill in once more changes nothing.                *)
(***************************************************************************)
\* Something is set that a flag governs.
Forces(x, f) == f \in k.forced /\ \E g \in F : g \in DOMAIN k.gate /\ k.gate[g] = f /\ x[g] # Unset

LEMMA EffectiveOf ==
    ASSUME NEW x, NEW f \in F
    PROVE  Effective(x)[f] = IF Forces(x, f) THEN On ELSE x[f]
  BY DEF Effective, Forces

LEMMA GateOf ==
    ASSUME WellFormed(k, F), NEW f \in F, f \in DOMAIN k.gate
    PROVE  /\ k.gate[f] \in F /\ k.gate[f] \in Scalars /\ k.gate[f] \notin DOMAIN k.gate
           /\ k.gate[f] \notin k.joined
  BY DEF WellFormed

LEMMA FillInOf ==
    ASSUME NEW f, NEW v, NEW s
    PROVE  LET w == FillIn(f, v, s) IN
           \/ /\ w = s[f] /\ w # Unset /\ f \in k.late /\ IsUnset(f, v)
              /\ w # Empty \/ f \in Scalars
           \/ /\ w = v
              /\ f \in k.late /\ IsUnset(f, v) => s[f] = Unset \/ (s[f] = Empty /\ f \notin Scalars)
  BY DEF FillIn

LEMMA LateOf ==
    ASSUME WellFormed(k, F), NEW x, NEW s, NEW f \in F
    PROVE  LET y == lateInitialize(x, s) IN
           /\ y[f] = IF Governed(f, Effective(y)) THEN FillIn(f, x[f], s) ELSE x[f]
           /\ f \notin DOMAIN k.gate =>
                /\ Governed(f, Effective(y))
                /\ Effective(y)[f] = On <=> Forces(x, f) \/ y[f] = On
<1> DEFINE flagged == [g \in F |-> IF g \in DOMAIN k.gate THEN x[g] ELSE FillIn(g, x[g], s)]
           y == lateInitialize(x, s)
<1>1. \A g \in F : y[g] = IF g \in DOMAIN k.gate /\ Governed(g, Effective(flagged))
                          THEN FillIn(g, x[g], s) ELSE flagged[g]
  BY DEF lateInitialize
<1>2. \A g \in F \ DOMAIN k.gate : y[g] = FillIn(g, x[g], s)
  BY <1>1
<1>3. \A g \in F \ DOMAIN k.gate : Effective(y)[g] = On <=> Effective(flagged)[g] = On
  <2> SUFFICES ASSUME NEW g \in F \ DOMAIN k.gate
               PROVE  Effective(y)[g] = On <=> Effective(flagged)[g] = On
    OBVIOUS
  <2>1. y[g] = flagged[g]
    BY <1>1
  <2>2. Effective(y)[g] = (IF Forces(y, g) THEN On ELSE y[g])
        /\ Effective(flagged)[g] = (IF Forces(flagged, g) THEN On ELSE flagged[g])
    BY EffectiveOf
  <2>3. CASE Effective(flagged)[g] = On
    <3>1. Forces(flagged, g) => Forces(y, g)
      <4> SUFFICES ASSUME Forces(flagged, g) PROVE Forces(y, g)
        OBVIOUS
      <4>1. PICK h \in F : h \in DOMAIN k.gate /\ k.gate[h] = g /\ flagged[h] # Unset
        BY DEF Forces
      <4>2. flagged[h] = x[h]
        BY <4>1
      <4>3. y[h] # Unset
        BY <1>1, <4>1, <4>2, FillInOf
      <4> QED
        BY <4>1, <4>3 DEF Forces
    <3> QED
      BY <2>1, <2>2, <2>3, <3>1
  <2>4. CASE Effective(flagged)[g] # On
    <3>1. ~Forces(y, g)
      <4> SUFFICES ASSUME Forces(y, g) PROVE FALSE
        OBVIOUS
      <4>1. PICK h \in F : h \in DOMAIN k.gate /\ k.gate[h] = g /\ y[h] # Unset
        BY DEF Forces
      <4>2. ~Governed(h, Effective(flagged))
        BY <2>4, <4>1 DEF Governed
      <4>3. flagged[h] # Unset
        BY <1>1, <4>1, <4>2
      <4> QED
        BY <2>2, <2>4, <4>1, <4>3 DEF Forces
    <3> QED
      BY <2>1, <2>2, <2>4, <3>1
  <2> QED
    BY <2>3, <2>4
<1>4. Governed(f, Effective(y)) <=> Governed(f, Effective(flagged))
  BY <1>3, GateOf DEF Governed
<1>5. f \notin DOMAIN k.gate => Governed(f, Effective(y)) /\ Governed(f, Effective(flagged))
  BY DEF Governed
<1>6. f \notin DOMAIN k.gate => (Effective(y)[f] = On <=> Forces(x, f) \/ y[f] = On)
  <2>1. Forces(flagged, f) <=> Forces(x, f)
    BY DEF Forces
  <2>2. f \notin DOMAIN k.gate => y[f] = flagged[f]
    BY <1>1
  <2>3. Effective(flagged)[f] = IF Forces(flagged, f) THEN On ELSE flagged[f]
    BY EffectiveOf
  <2> HIDE DEF y, flagged
  <2> QED
    BY <1>3, <2>1, <2>2, <2>3
<1> HIDE DEF y
<1>7. y[f] = IF Governed(f, Effective(y)) THEN FillIn(f, x[f], s) ELSE x[f]
  BY <1>1, <1>4, <1>5
<1> QED
  BY <1>5, <1>6, <1>7 DEF y

LEMMA LateFunction ==
    ASSUME NEW x, NEW s
    PROVE  lateInitialize(x, s) = [f \in F |-> lateInitialize(x, s)[f]]
  BY DEF lateInitialize

\* A field of what was filled in is what it was, or what was read of the object.
LEMMA LateTypes ==
    ASSUME WellFormed(k, F), NEW x \in Specs, NEW o \in Object
    PROVE  lateInitialize(x, Reported(o)) \in Specs
<1> DEFINE s == Reported(o)
           y == lateInitialize(x, s)
<1>1. ASSUME NEW f \in F PROVE y[f] \in SpecValues /\ y[f] \in Settable(f)
  <2>1. x[f] \in SpecValues /\ x[f] \in Settable(f)
    BY Written DEF Specs
  <2>2. y[f] = x[f] \/ (y[f] = s[f] /\ y[f] # Unset /\ (y[f] # Empty \/ f \in Scalars))
    BY LateOf, FillInOf
  <2>3. s[f] \in SpecValues /\ (s[f] = Unset \/ s[f] \in Values(f))
    BY AnswerOf
  <2> HIDE DEF s, y
  <2>4. CASE y[f] # x[f]
    <3>1. y[f] \in Values(f) /\ y[f] \in SpecValues /\ (y[f] # Empty \/ f \in Scalars)
      BY <2>2, <2>3, <2>4
    <3> QED
      BY <3>1 DEF Settable
  <2> QED
    BY <2>1, <2>4
<1>2. y = [f \in F |-> y[f]]
  BY LateFunction
<1> HIDE DEF y
<1>3. y \in [F -> SpecValues]
  BY <1>1, <1>2
<1> QED
  BY <1>1, <1>3 DEF Specs, SpecValues, y

LEMMA LateTwice ==
    ASSUME WellFormed(k, F), NEW x, NEW s
    PROVE  lateInitialize(lateInitialize(x, s), s) = lateInitialize(x, s)
<1> DEFINE y == lateInitialize(x, s)
           z == lateInitialize(y, s)
<1>1. ASSUME NEW f \in F PROVE FillIn(f, FillIn(f, x[f], s), s) = FillIn(f, x[f], s)
  BY DEF FillIn, IsUnset
<1>2. \A f \in F \ DOMAIN k.gate : z[f] = y[f]
  <2> SUFFICES ASSUME NEW f \in F \ DOMAIN k.gate PROVE z[f] = y[f]
    OBVIOUS
  <2>1. y[f] = FillIn(f, x[f], s) /\ z[f] = FillIn(f, y[f], s)
    BY LateOf
  <2> QED
    BY <1>1, <2>1
<1>3. ASSUME NEW f \in F PROVE z[f] = y[f] \/ (Governed(f, Effective(z)) /\ ~Governed(f, Effective(y)))
  <2>1. y[f] = IF Governed(f, Effective(y)) THEN FillIn(f, x[f], s) ELSE x[f]
    BY LateOf
  <2>2. z[f] = IF Governed(f, Effective(z)) THEN FillIn(f, y[f], s) ELSE y[f]
    BY LateOf
  <2> HIDE DEF y, z
  <2> QED
    BY <2>1, <2>2, <1>1
<1>4. ASSUME NEW f \in F, f \in DOMAIN k.gate, Governed(f, Effective(z)) PROVE Governed(f, Effective(y))
  <2> DEFINE g == k.gate[f]
  <2>1. g \in F /\ g \notin DOMAIN k.gate
    BY <1>4, GateOf
  <2>2. z[g] = y[g]
    BY <1>2, <2>1
  <2>3. Effective(z)[g] = On
    BY <1>4 DEF Governed
  <2>4. Effective(z)[g] = On <=> Forces(y, g) \/ z[g] = On
    BY <2>1, LateOf
  <2>5. Effective(y)[g] = IF Forces(y, g) THEN On ELSE y[g]
    BY <2>1, EffectiveOf
  <2> HIDE DEF y, z, g
  <2>6. Effective(y)[g] = On
    BY <2>2, <2>3, <2>4, <2>5
  <2> QED
    BY <2>6 DEF Governed, g
<1>5. ASSUME NEW f \in F PROVE z[f] = y[f]
  <2>1. f \notin DOMAIN k.gate => Governed(f, Effective(y))
    BY DEF Governed
  <2> HIDE DEF y, z
  <2> QED
    BY <1>3, <1>4, <2>1
<1>6. y = [f \in F |-> y[f]] /\ z = [f \in F |-> z[f]]
  BY LateFunction
<1> HIDE DEF y, z
<1>7. z = y
  BY <1>5, <1>6
<1> QED
  BY <1>7 DEF y, z

-----------------------------------------------------------------------------
(***************************************************************************)
(* Requests.                                                               *)
(***************************************************************************)
\* The object has what a request carried.
Carried(x, o, sent) ==
    \A f \in F : Sends(f, Requested(x), sent) /\ Governed(f, o) => o[f] = OrZero(Requested(x)[f])

LEMMA PostCarries ==
    ASSUME NEW x, NEW o \in Posts(x)
    PROVE  o \in Object /\ Carried(x, o, k.created)
  BY DEF Posts, Carried

LEMMA EffectiveValues ==
    ASSUME WellFormed(k, F), NEW x \in Specs, NEW f \in F
    PROVE  LET v == Effective(x)[f] IN
           /\ v \in SpecValues
           /\ v = Unset \/ v \in Values(f)
           /\ f \in Demanded(k) => v # Unset /\ (f \notin Scalars => v # Empty)
<1>1. Effective(x)[f] = IF Forces(x, f) THEN On ELSE x[f]
  BY EffectiveOf
<1>2. Forces(x, f) => f \in Scalars
  BY DEF Forces, WellFormed
<1>3. On \in SpecValues /\ (f \in Scalars => On \in Values(f))
  BY ValuesOf DEF SpecValues
<1> QED
  BY <1>1, <1>2, <1>3, Written, Distinct

\* A field that is not joined is sent as it is.
LEMMA RequestedOf ==
    ASSUME NEW x, NEW f \in F
    PROVE  /\ Requested(x)[f] = On \/ Requested(x)[f] = Effective(x)[f]
           /\ f \notin k.joined => Requested(x)[f] = Effective(x)[f]
  BY DEF Requested

LEMMA RequestedValues ==
    ASSUME WellFormed(k, F), NEW x \in Specs, NEW f \in F
    PROVE  Requested(x)[f] = Unset \/ Requested(x)[f] \in Values(f)
<1>1. f \in k.joined => f \in Scalars
  BY DEF WellFormed
<1>2. f \in Scalars => On \in Values(f)
  BY ValuesOf
<1> QED
  BY <1>1, <1>2, RequestedOf, EffectiveValues

\* Where the flags that are joined agree a request says what the spec says.
LEMMA Untorn ==
    ASSUME WellFormed(k, F), NEW x, ~Torn(x)
    PROVE  Requested(x) = Effective(x)
<1>1. ASSUME NEW f \in F PROVE Requested(x)[f] = Effective(x)[f]
  <2>1. CASE f \in k.joined /\ \E g \in F \cap k.joined : Effective(x)[g] = On
    <3>1. PICK g \in F \cap k.joined : Effective(x)[g] = On
      BY <2>1
    <3>2. Effective(x)[g] = x[g] /\ Effective(x)[f] = x[f]
      BY <2>1, EffectiveOf DEF Forces, WellFormed
    <3>3. x[f] = On
      BY <2>1, <3>1, <3>2 DEF Torn
    <3> QED
      BY <3>2, <3>3, RequestedOf
  <2>2. CASE ~(f \in k.joined /\ \E g \in F \cap k.joined : Effective(x)[g] = On)
    BY <2>2 DEF Requested
  <2> QED
    BY <2>1, <2>2
<1>2. /\ Requested(x) = [f \in F |-> Requested(x)[f]]
      /\ Effective(x) = [f \in F |-> Effective(x)[f]]
  BY DEF Requested, Effective
<1> QED
  BY <1>1, <1>2

\* Nothing of what is joined is filled in.
LEMMA LateTorn ==
    ASSUME WellFormed(k, F), NEW x, NEW s
    PROVE  Torn(lateInitialize(x, s)) <=> Torn(x)
<1>1. ASSUME NEW f \in F \cap k.joined PROVE lateInitialize(x, s)[f] = x[f]
  <2>1. FillIn(f, x[f], s) = x[f]
    BY FillInOf DEF WellFormed
  <2> QED
    BY <2>1, LateOf
<1> QED
  BY <1>1 DEF Torn

LEMMA PutOf ==
    ASSUME WellFormed(k, F), NEW o, NEW x, NEW f \in F
    PROVE  LET e == Requested(x)
               v == IF Sends(f, e, k.updated) THEN OrZero(e[f]) ELSE o[f]
           IN  /\ Governed(f, Put(o, x)) => Put(o, x)[f] = v
               /\ ~Governed(f, Put(o, x)) => Put(o, x)[f] = o[f]
<1> DEFINE e       == Requested(x)
           flagged == [g \in F |-> IF Sends(g, e, k.updated) THEN OrZero(e[g]) ELSE o[g]]
           p       == Put(o, x)
<1>1. p = [g \in F |-> IF Governed(g, flagged) THEN flagged[g] ELSE o[g]]
  BY DEF Put
<1> HIDE DEF p
<1>2. \A g \in F \ DOMAIN k.gate : p[g] = flagged[g]
  BY <1>1 DEF Governed
<1>3. Governed(f, p) <=> Governed(f, flagged)
  <2> HIDE DEF flagged
  <2> QED
    BY <1>2, GateOf DEF Governed
<1>4. flagged[f] = IF Sends(f, e, k.updated) THEN OrZero(e[f]) ELSE o[f]
  OBVIOUS
<1> HIDE DEF flagged, e
<1>5. p[f] = IF Governed(f, flagged) THEN flagged[f] ELSE o[f]
  BY <1>1
<1> QED
  BY <1>3, <1>4, <1>5 DEF p, e

LEMMA PutCarries ==
    ASSUME WellFormed(k, F), NEW o \in Object, NEW x \in Specs
    PROVE  Put(o, x) \in Object /\ Carried(x, Put(o, x), k.updated)
<1> DEFINE e == Requested(x)
           p == Put(o, x)
<1>1. ASSUME NEW f \in F PROVE p[f] \in Holds(f)
  <2>1. p[f] = o[f] \/ (Sends(f, e, k.updated) /\ p[f] = OrZero(e[f]))
    BY PutOf
  <2>2. o[f] \in Holds(f)
    BY DEF Object
  <2>3. e[f] = Unset \/ e[f] \in Values(f)
    BY RequestedValues
  <2>4. f \notin Givens => Empty \in Values(f)
    BY DEF Values
  <2>5. Sends(f, e, k.updated) /\ f \in Givens => OrZero(e[f]) # Empty
    BY DEF Sends
  <2>6. Sends(f, e, k.updated) => OrZero(e[f]) \in Values(f)
    BY <2>3, <2>4, <2>5 DEF OrZero
  <2>7. Values(f) \subseteq Holds(f)
    BY DEF Holds
  <2> HIDE DEF p, e
  <2> QED
    BY <2>1, <2>2, <2>6, <2>7
<1>2. p = [f \in F |-> p[f]]
  BY DEF Put
<1>3. \A f \in F : Holds(f) \subseteq {Empty, On, "a", "b", Several}
  BY ValuesOf DEF Holds
<1>4. Carried(x, p, k.updated)
  BY PutOf DEF Carried
<1> HIDE DEF p
<1>5. p \in [F -> {Empty, On, "a", "b", Several}]
  BY <1>1, <1>2, <1>3
<1>6. p \in Object
  BY <1>1, <1>5 DEF Object
<1> QED
  BY <1>4, <1>6 DEF p

-----------------------------------------------------------------------------
(***************************************************************************)
(* Comparing.                                                              *)
(***************************************************************************)
\* The provider has no reason to write the field.
Accepted(f, e, s) ==
    \/ OrZero(e[f]) = OrZero(s[f])
    \/ ~Governed(f, e)
    \/ f \in k.whenSet /\ IsUnset(f, e[f])

\* Where isUpToDate sees a difference all the same, to write would be futile.
LEMMA AllAccepted ==
    ASSUME WellFormed(k, F), Agree(k), KnownAtFace(slice), NEW y, NEW s,
           \A f \in F \cap k.compared : Accepted(f, Effective(y), s)
    PROVE  isUpToDate(y, s) \/ Futile(y, s)
<1> DEFINE e == Effective(y)
<1> SUFFICES ASSUME NEW f \in F \cap k.compared,
                    ~(IF f \in k.deep THEN e[f] = s[f] ELSE OrZero(e[f]) = OrZero(s[f])),
                    ~(~Governed(f, e) /\ f \notin k.ungated),
                    ~(f \in k.whenSet /\ IsUnset(f, e[f]))
             PROVE  Futile(y, s)
  BY DEF isUpToDate
<1>0. f \in k.deep \cup k.ungated => slice.kind[1] \in FaceValued
  BY DEF KnownAtFace, k
<1>1. CASE OrZero(e[f]) = OrZero(s[f])
  <2>1. f \in k.deep /\ f \notin k.forced /\ e[f] # s[f]
    BY <1>1 DEF Agree
  <2>2. e[f] = y[f]
    BY <2>1, EffectiveOf DEF Forces
  <2> HIDE DEF e
  <2> QED
    BY <1>0, <1>1, <2>1, <2>2 DEF Futile
<1>2. CASE ~Governed(f, e)
  <2>1. f \in k.ungated /\ f \in DOMAIN k.gate /\ e[k.gate[f]] # On
    BY <1>2 DEF Governed
  <2>2. y[k.gate[f]] # On
    BY <2>1, GateOf, EffectiveOf
  <2> HIDE DEF e
  <2> QED
    BY <1>0, <2>1, <2>2 DEF Futile, Governed
<1> QED
  BY <1>1, <1>2 DEF Accepted

LEMMA OrZeroOf ==
    ASSUME NEW v
    PROVE  /\ v = Unset => OrZero(v) = Empty
           /\ v # Unset => OrZero(v) = v
           /\ OrZero(OrZero(v)) = OrZero(v)
  BY Distinct DEF OrZero

\* A flag that nothing forces is what was filled in.
LEMMA Unforced ==
    ASSUME WellFormed(k, F), NEW x, NEW s, NEW f \in F, ~Forces(x, f)
    PROVE  Effective(lateInitialize(x, s))[f] = lateInitialize(x, s)[f]
<1> DEFINE y == lateInitialize(x, s)
           e == Effective(y)
<1>1. CASE f \in DOMAIN k.gate
  BY <1>1, EffectiveOf, GateOf DEF Forces
<1>2. CASE f \notin DOMAIN k.gate
  <2>1. e[f] = On <=> y[f] = On
    BY <1>2, LateOf
  <2>2. e[f] = On \/ e[f] = y[f]
    BY EffectiveOf
  <2> HIDE DEF e, y
  <2> QED
    BY <2>1, <2>2 DEF e, y
<1> QED
  BY <1>1, <1>2

\* A request of a spec that is not torn settles what it carries: each field of the object is then what was sent,
\* or is filled in from what the Grid has chosen.
LEMMA CarriedContent ==
    ASSUME WellFormed(k, F), Agree(k), KnownAtFace(slice),
           NEW x \in Specs, ~Torn(x), NEW o \in Object, NEW sent,
           k.compared \subseteq sent, \A f \in DOMAIN k.gate : k.gate[f] \in sent,
           Carried(x, o, sent)
    PROVE  Content(x, o)
<1> DEFINE s == Reported(o)
           y == lateInitialize(x, s)
           e == Effective(y)
           d == Effective(x)
<1>0. ASSUME NEW f \in F, Sends(f, d, sent), Governed(f, o) PROVE o[f] = OrZero(d[f])
  BY <1>0, Untorn DEF Carried
<1>1. ASSUME NEW g \in F, g \in sent, g \notin DOMAIN k.gate, d[g] = On PROVE o[g] = On
  <2>1. Sends(g, d, sent) /\ Governed(g, o)
    BY <1>1, Distinct DEF Sends, Governed, OrZero
  <2> HIDE DEF d
  <2> QED
    BY <1>0, <1>1, <2>1, Distinct DEF OrZero
\* A flag that is on after all has been filled in is on in the object.
<1>2. ASSUME NEW g \in F, g \in sent, g \notin DOMAIN k.gate, e[g] = On PROVE o[g] = On
  <2>1. Forces(x, g) \/ y[g] = On
    BY <1>2, LateOf
  <2>2. Forces(x, g) => d[g] = On
    BY EffectiveOf
  <2>3. y[g] = On => x[g] = On \/ s[g] = On
    <3>1. y[g] = FillIn(g, x[g], s)
      BY <1>2, LateOf
    <3> HIDE DEF y, s
    <3> QED
      BY <3>1, FillInOf
  <2>4. x[g] = On => d[g] = On
    BY EffectiveOf
  <2>5. s[g] = On => o[g] = On
    BY <1>2, AnswerOf
  <2> HIDE DEF y, s, d, e
  <2> QED
    BY <1>1, <1>2, <2>1, <2>2, <2>3, <2>4, <2>5
<1>3. ASSUME NEW f \in F \cap k.compared PROVE Accepted(f, e, s)
  <2> SUFFICES ASSUME Governed(f, e) PROVE Accepted(f, e, s)
    BY DEF Accepted
  <2>1. Governed(f, o)
    <3>1. f \in DOMAIN k.gate => o[k.gate[f]] = On
      BY <1>2, GateOf DEF Governed
    <3> QED
      BY <3>1 DEF Governed
  <2>2. f \in sent /\ f \in k.returned
    BY DEF Agree
  <2>3. CASE Forces(x, f)
    <3>1. f \notin DOMAIN k.gate
      BY <2>3, GateOf DEF Forces
    <3>2. d[f] = On /\ e[f] = On
      BY <2>3, <3>1, EffectiveOf, LateOf
    <3>3. o[f] = On
      BY <1>1, <2>2, <3>1, <3>2
    <3>4. s[f] = On
      BY <2>1, <2>2, <3>3, AnswerOf, Distinct DEF SpecValues
    <3> HIDE DEF e, s
    <3> QED
      BY <3>2, <3>4 DEF Accepted
  <2>4. CASE ~Forces(x, f)
    <3>1. d[f] = x[f]
      BY <2>4, EffectiveOf
    <3>2. y[f] = FillIn(f, x[f], s)
      BY LateOf
    <3>3. e[f] = y[f]
      BY <2>4, Unforced
    <3>4. x[f] \in SpecValues /\ (f \in Demanded(k) => x[f] # Unset /\ (f \notin Scalars => x[f] # Empty))
          /\ (x[f] = Unset \/ x[f] \in Values(f))
      BY Written
    <3>5. CASE Sends(f, d, sent)
      <4>1. o[f] = OrZero(x[f])
        BY <1>0, <2>1, <3>1, <3>5
      <4>2. OrZero(x[f]) # Several
        BY <3>4, Distinct DEF OrZero, SpecValues
      <4>3. s[f] = o[f] \/ (s[f] = Unset /\ o[f] = Empty)
        BY <2>1, <2>2, <4>1, <4>2, AnswerOf
      <4>4. OrZero(s[f]) = OrZero(x[f])
        BY <4>1, <4>3, OrZeroOf
      <4> HIDE DEF e, y, s, d
      <4>5. OrZero(y[f]) = OrZero(s[f])
        BY <3>2, <4>4, FillInOf
      <4> QED
        BY <3>3, <4>5 DEF Accepted
    <3>6. CASE ~Sends(f, d, sent)
      <4>1. \/ f \in k.omitsUnset /\ x[f] = Unset
            \/ f \in k.omitsEmpty \cup Givens /\ OrZero(x[f]) = Empty
        BY <2>2, <3>1, <3>6 DEF Sends
      <4>2. x[f] = Unset \/ (x[f] = Empty /\ f \in k.omitsEmpty \cup Givens)
        BY <4>1, OrZeroOf
      <4>3. f \in k.late \cup k.whenSet \cup Demanded(k)
        BY <4>1 DEF Agree
      <4>4. x[f] = Empty => f \notin Givens
        <5>1. f \in Givens => f \notin Scalars
          BY DEF WellFormed
        <5> QED
          BY <3>4, <5>1, ValuesOf, Distinct
      <4>5. x[f] = Empty => f \in Lists \cap (k.late \cup k.whenSet)
        <5>1. f \in k.omitsEmpty =>
                f \in Givens \cup (Demanded(k) \ Scalars) \cup (Lists \cap (k.late \cup k.whenSet))
          BY DEF Agree
        <5>2. x[f] = Empty => f \in k.omitsEmpty
          BY <4>2, <4>4, Distinct
        <5> HIDE DEF e, y, s, d
        <5> QED
          BY <3>4, <4>4, <5>1, <5>2
      <4>6. IsUnset(f, x[f])
        BY <4>2, <4>5 DEF IsUnset
      <4>7. f \in k.late \cup k.whenSet
        BY <3>4, <4>2, <4>3, <4>5
      <4>8. OrZero(x[f]) = Empty
        BY <4>2, OrZeroOf, Distinct
      <4> HIDE DEF e, y, s, d
      <4>9. CASE y[f] = s[f]
        BY <3>3, <4>9 DEF Accepted
      <4>10. CASE y[f] = x[f] /\ (f \in k.late => s[f] = Unset \/ s[f] = Empty)
        <5>1. f \in k.late => OrZero(s[f]) = Empty
          BY <4>10, OrZeroOf, Distinct
        <5> QED
          BY <3>3, <4>6, <4>7, <4>8, <4>10, <5>1 DEF Accepted
      <4> QED
        BY <3>2, <4>6, <4>9, <4>10, FillInOf
    <3> QED
      BY <3>5, <3>6
  <2> QED
    BY <2>3, <2>4
<1> QED
  BY <1>3, AllAccepted DEF Content

\* Where the status agrees with what the user has set there is nothing to write.
LEMMA AgreesContent ==
    ASSUME WellFormed(k, F), Agree(k), KnownAtFace(slice), NEW x \in Specs, NEW o \in Object,
           Agrees(x, Shown(x, Reported(o)))
    PROVE  Content(x, o)
<1> DEFINE s     == Reported(o)
           y     == lateInitialize(x, s)
           e     == Effective(y)
           d     == Effective(x)
           shown == Shown(x, s)
<1>1. ASSUME NEW f \in F \cap k.compared PROVE Accepted(f, e, s)
  <2> SUFFICES ASSUME Governed(f, e) PROVE Accepted(f, e, s)
    BY DEF Accepted
  <2>1. OrZero(shown[f]) = OrZero(s[f])
    <3>1. f \in k.mirrored /\ f \notin k.echoed
      BY DEF Agree
    <3>2. shown[f] = IF s[f] # Empty \/ f \in Scalars THEN s[f] ELSE Unset
      BY <3>1 DEF Shown
    <3> QED
      BY <3>2, OrZeroOf, Distinct
  <2>2. f \in k.owned \/ ~IsUnset(f, d[f]) => OrZero(d[f]) = OrZero(s[f])
    BY <2>1 DEF Agrees
  <2>3. CASE Forces(x, f)
    <3>1. f \notin DOMAIN k.gate
      BY <2>3, GateOf DEF Forces
    <3>2. d[f] = On /\ e[f] = On
      BY <2>3, <3>1, EffectiveOf, LateOf
    <3>3. ~IsUnset(f, On)
      BY Distinct DEF IsUnset
    <3> HIDE DEF e, s, d, y
    <3> QED
      BY <2>2, <3>2, <3>3 DEF Accepted
  <2>4. CASE ~Forces(x, f)
    <3>1. d[f] = x[f]
      BY <2>4, EffectiveOf
    <3>2. y[f] = FillIn(f, x[f], s)
      BY LateOf
    <3>3. e[f] = y[f]
      BY <2>4, Unforced
    <3>4. CASE f \in k.owned \/ ~IsUnset(f, x[f])
      <4>1. OrZero(x[f]) = OrZero(s[f])
        BY <2>2, <3>1, <3>4
      <4> HIDE DEF e, y, s, d
      <4> QED
        BY <3>2, <3>3, <4>1, FillInOf DEF Accepted
    <3>5. CASE f \notin k.owned /\ IsUnset(f, x[f])
      <4>1. f \in k.late \cup k.whenSet
        <5>1. f \notin Demanded(k)
          BY <3>5, Written DEF IsUnset, WellFormed
        <5> QED
          BY <3>5, <5>1 DEF Agree
      <4>2. OrZero(x[f]) = Empty
        BY <3>5, OrZeroOf, Distinct DEF IsUnset
      <4> HIDE DEF e, y, s, d
      <4>3. CASE y[f] = s[f]
        BY <3>3, <4>3 DEF Accepted
      <4>4. CASE y[f] = x[f] /\ (f \in k.late => s[f] = Unset \/ s[f] = Empty)
        <5>1. f \in k.late => OrZero(s[f]) = Empty
          BY <4>4, OrZeroOf, Distinct
        <5> QED
          BY <3>3, <3>5, <4>1, <4>2, <4>4, <5>1 DEF Accepted
      <4> QED
        BY <3>2, <3>5, <4>3, <4>4, FillInOf
    <3> QED
      BY <3>4, <3>5
  <2> QED
    BY <2>3, <2>4
<1> QED
  BY <1>1, AllAccepted DEF Content

\* A PUT that was made of what Observe has read leaves what the user has not set as it
\* is, or as it was then.
LEMMA PutLeaves ==
    ASSUME WellFormed(k, F), Preserves(k), NEW u \in Specs, NEW r \in Object, NEW o \in Object,
           NEW f \in F \ (k.owned \cup k.forced), IsUnset(f, u[f]),
           Governed(f, Put(o, lateInitialize(u, Reported(r))))
    PROVE  Put(o, lateInitialize(u, Reported(r)))[f] \in {o[f], Reported(r)[f]}
<1> DEFINE s == Reported(r)
           x == lateInitialize(u, s)
           e == Effective(x)
           q == Requested(x)
           p == Put(o, x)
<1>1. p[f] = IF Sends(f, e, k.updated) THEN OrZero(e[f]) ELSE o[f]
  <2>1. f \notin k.joined
    BY DEF WellFormed
  <2>2. q[f] = e[f]
    BY <2>1, RequestedOf
  <2>3. Sends(f, q, k.updated) <=> Sends(f, e, k.updated)
    BY <2>2 DEF Sends
  <2>4. p[f] = IF Sends(f, q, k.updated) THEN OrZero(q[f]) ELSE o[f]
    BY PutOf
  <2> HIDE DEF p, q, e
  <2> QED
    BY <2>2, <2>3, <2>4
<1>2. e[f] = x[f]
  BY EffectiveOf DEF Forces
<1>3. x[f] = IF Governed(f, e) THEN FillIn(f, u[f], s) ELSE u[f]
  BY LateOf
<1> SUFFICES ASSUME Sends(f, e, k.updated), x[f] # s[f] \/ s[f] = Unset PROVE OrZero(x[f]) \in {o[f], s[f]}
  <2> HIDE DEF p, x, s, e
  <2> QED
    BY <1>1, <1>2, OrZeroOf DEF p, x, s
<1>4. x[f] = u[f]
  <2> HIDE DEF x, s, e
  <2> QED
    BY <1>3, FillInOf
<1>5. OrZero(u[f]) = Empty
  BY OrZeroOf, Distinct DEF IsUnset
<1>6. f \in FillsIn(k)
  <2>1. f \in k.updated /\ f \notin k.omitsEmpty \cup Givens /\ (f \in k.omitsUnset => u[f] # Unset)
    <3> HIDE DEF x, s, e
    <3> QED
      BY <1>2, <1>4, <1>5 DEF Sends
  <2>2. f \notin Demanded(k)
    BY Written DEF IsUnset, WellFormed
  <2>3. f \in k.omitsUnset => f \in Lists
    BY <2>1 DEF IsUnset
  <2>4. f \in FillsIn(k) \cup k.omitsEmpty \cup Givens \cup (k.omitsUnset \ Lists) \cup Demanded(k)
    BY <2>1 DEF Preserves
  <2> QED
    BY <2>1, <2>2, <2>3, <2>4
<1>7. s[f] # Unset /\ f \in k.late
  BY <1>6, AnswerOf DEF FillsIn
<1>8. Governed(f, e)
  <2> SUFFICES ASSUME ~Governed(f, e) PROVE FALSE
    OBVIOUS
  <2> DEFINE g == k.gate[f]
  <2>1. f \in DOMAIN k.gate /\ e[g] # On /\ p[g] = On
    BY DEF Governed
  <2>2. g \in F /\ g \in Scalars /\ g \notin DOMAIN k.gate /\ g \notin k.joined
    BY <2>1, GateOf
  <2>3. g \in k.updated \ (k.omitsEmpty \cup Givens) /\ (g \in k.omitsUnset => g \in FillsIn(k) \cup Demanded(k))
    BY <2>1 DEF Preserves
  <2>4. p[g] = IF Sends(g, e, k.updated) THEN OrZero(e[g]) ELSE o[g]
    <3>1. q[g] = e[g]
      BY <2>2, RequestedOf
    <3>2. Sends(g, q, k.updated) <=> Sends(g, e, k.updated)
      BY <3>1 DEF Sends
    <3>3. p[g] = IF Sends(g, q, k.updated) THEN OrZero(q[g]) ELSE o[g]
      BY <2>2, PutOf DEF Governed
    <3> HIDE DEF p, q, e, g
    <3> QED
      BY <3>1, <3>2, <3>3
  <2>5. x[g] = FillIn(g, u[g], s)
    BY <2>2, LateOf
  <2>6. g \in Demanded(k) => u[g] # Unset
    BY <2>2, Written
  <2>7. g \in FillsIn(k) => s[g] # Unset /\ g \in k.late
    BY <2>2, AnswerOf DEF FillsIn
  <2>8. e[g] = On \/ e[g] = x[g]
    BY <2>2, EffectiveOf
  <2> HIDE DEF g, x, s, e, p
  <2>9. g \in FillsIn(k) \cup Demanded(k) => x[g] # Unset
    BY <2>2, <2>5, <2>6, <2>7, FillInOf DEF IsUnset
  <2>10. Sends(g, e, k.updated)
    BY <2>1, <2>3, <2>8, <2>9 DEF Sends
  <2>11. OrZero(e[g]) # On
    BY <2>1, OrZeroOf, Distinct
  <2> QED
    BY <2>1, <2>4, <2>10, <2>11
<1> HIDE DEF x, s, e, p
<1>9. s[f] = Empty
  BY <1>3, <1>4, <1>7, <1>8, FillInOf
<1> QED
  BY <1>4, <1>5, <1>9

-----------------------------------------------------------------------------
(***************************************************************************)
(* Steps.  The slice stays the same, and with it all that is said of it.   *)
(***************************************************************************)
LEMMA SameSlice ==
    ASSUME [Next]_vars
    PROVE  slice' = slice /\ F' = F /\ k' = k
<1>1. slice' = slice
  BY DEF Next, Reconcile, EditSpec, Drift, Observe, LateInit, Create, Update, Abort, vars
<1> QED
  BY <1>1 DEF F, k

LEMMA SameTypes ==
    ASSUME F' = F, k' = k
    PROVE  /\ Specs' = Specs /\ Object' = Object /\ Working' = Working
           /\ TypeOK' <=>
                /\ spec' \in Specs /\ wish' \in Specs
                /\ obj' \in Object \cup {Absent}
                /\ status' \in [F -> SpecValues] \cup {Absent}
                /\ wk' \in Working \cup {Idle}
                /\ other' \in BOOLEAN /\ quiet' \in BOOLEAN
                /\ left' \in [{"edit", "drift", "abort"} -> Nat]
<1>1. Specs' = Specs
  BY DEF Specs, Settable
<1>2. Object' = Object
  BY DEF Object
<1>3. Working' = Working
  BY <1>1 DEF Working
<1> QED
  BY <1>1, <1>2, <1>3 DEF TypeOK, SpecValues, Idle

LEMMA SameMade ==
    ASSUME F' = F, k' = k
    PROVE  Made' <=>
             /\ wk'.pc \in {"late", "update"} =>
                  Answers(wk'.seen) /\ wk'.x = lateInitialize(wk'.user, wk'.seen)
             /\ wk'.pc \in {"create", "update"} /\ wk'.fresh => spec' = wk'.x
             /\ wk'.pc = "late" /\ wk'.fresh => spec' = wk'.user
<1>1. lateInitialize(wk.user, wk.seen)' = lateInitialize(wk'.user, wk'.seen)
  BY DEF lateInitialize, Governed, Effective, FillIn, IsUnset
<1>2. Answers(wk.seen)' <=> Answers(wk'.seen)
  BY SameTypes DEF Answers, Reported, Governed
<1> QED
  BY <1>1, <1>2 DEF Made

LEMMA SameContent ==
    ASSUME slice' = slice, F' = F, k' = k
    PROVE  /\ Content(spec, obj)' <=> Content(spec', obj')
           /\ Torn(spec)' <=> Torn(spec')
           /\ Reported(obj)' = Reported(obj')
<1>1. Reported(obj)' = Reported(obj')
  BY DEF Reported, Governed
<1>2. lateInitialize(spec, Reported(obj))' = lateInitialize(spec', Reported(obj'))
  BY <1>1 DEF lateInitialize, Governed, Effective, FillIn, IsUnset
<1>3. isUpToDate(lateInitialize(spec, Reported(obj)), Reported(obj))'
        <=> isUpToDate(lateInitialize(spec', Reported(obj')), Reported(obj'))
  BY <1>1, <1>2 DEF isUpToDate, Governed, Effective, IsUnset, OrZero
<1>4. Futile(lateInitialize(spec, Reported(obj)), Reported(obj))'
        <=> Futile(lateInitialize(spec', Reported(obj')), Reported(obj'))
  BY <1>1, <1>2 DEF Futile, Governed, OrZero
<1>5. Torn(spec)' <=> Torn(spec')
  BY DEF Torn
<1> QED
  BY <1>1, <1>3, <1>4, <1>5 DEF Content

LEMMA ReportedType ==
    ASSUME WellFormed(k, F), NEW o \in Object
    PROVE  Reported(o) \in [F -> SpecValues]
<1>1. \A f \in F : Reported(o)[f] \in SpecValues
  BY AnswerOf
<1>2. Reported(o) = [f \in F |-> Reported(o)[f]]
  BY DEF Reported
<1> QED
  BY <1>1, <1>2

LEMMA ShownType ==
    ASSUME NEW x \in Specs, NEW s \in [F -> SpecValues]
    PROVE  Shown(x, s) \in [F -> SpecValues]
  BY Written DEF Shown, SpecValues

\* A spec with another value in one of its fields.
LEMMA EditedSpec ==
    ASSUME NEW x \in Specs, NEW f \in F, NEW v \in Settable(f)
    PROVE  [x EXCEPT ![f] = v] \in Specs
<1>1. v \in SpecValues
  BY ValuesOf DEF Settable, SpecValues
<1> QED
  BY <1>1 DEF Specs, SpecValues

LEMMA DriftedObject ==
    ASSUME NEW o \in Object, NEW f \in F, NEW v \in Holds(f)
    PROVE  [o EXCEPT ![f] = v] \in Object
<1>1. v \in {Empty, On, "a", "b", Several}
  BY ValuesOf DEF Holds
<1> QED
  BY <1>1 DEF Object

LEMMA SpendType ==
    ASSUME NEW c \in {"edit", "drift", "abort"}, Spend(c),
           left \in [{"edit", "drift", "abort"} -> Nat]
    PROVE  left' \in [{"edit", "drift", "abort"} -> Nat]
  BY DEF Spend

\* What a step of Observe leaves for the rest of the reconcile.
LEMMA ObserveMade ==
    ASSUME WellFormed(k, F), TypeOK, wk = Idle, Observe
    PROVE  /\ \/ wk' = wk
              \/ /\ obj # Absent
                 /\ wk' \in Working /\ wk'.pc \in {"late", "update"}
                 /\ wk'.fresh /\ wk'.user = spec /\ wk'.seen = Reported(obj)
                 /\ wk'.x = lateInitialize(spec, wk'.seen)
                 /\ wk'.pc = "update" => wk'.x = spec
              \/ /\ obj = Absent
                 /\ wk' \in Working /\ wk'.pc = "create" /\ wk'.fresh /\ wk'.x = spec
           /\ status' \in [F -> SpecValues] \cup {Absent}
<1> DEFINE s == Reported(obj)
           x == lateInitialize(spec, s)
           synced == isUpToDate(x, s) /\ ~other
<1>1. CASE obj = Absent
  <2>1. wk' = [pc |-> "create", x |-> spec, user |-> spec, seen |-> Absent, synced |-> FALSE,
               fresh |-> TRUE] /\ status' = status
    BY <1>1 DEF Observe, Work
  <2> QED
    BY <1>1, <2>1 DEF TypeOK, Working, SpecValues
<1>2. CASE obj # Absent
  <2>1. obj \in Object /\ spec \in Specs
    BY <1>2 DEF TypeOK
  <2>2. s \in [F -> SpecValues] /\ x \in Specs
    BY <2>1, ReportedType, LateTypes
  <2>3. synced \in BOOLEAN
    BY DEF isUpToDate
  <2>4. \/ x # spec /\ Work("late", x, s, synced) /\ UNCHANGED status
        \/ x = spec /\ ~synced /\ Work("update", x, s, synced) /\ UNCHANGED status
        \/ x = spec /\ synced /\ status' = Shown(x, s) /\ UNCHANGED wk
    BY <1>2 DEF Observe
  <2>5. Shown(x, s) \in [F -> SpecValues]
    BY <2>2, ShownType
  <2> HIDE DEF s, x, synced
  <2>6. CASE UNCHANGED wk /\ status' = Shown(x, s)
    BY <2>5, <2>6
  <2>7. CASE UNCHANGED status /\ \E pc \in {"late", "update"} : Work(pc, x, s, synced) /\ (pc = "update" => x = spec)
    <3>1. PICK pc \in {"late", "update"} :
            /\ wk' = [pc |-> pc, x |-> x, user |-> spec, seen |-> s, synced |-> synced, fresh |-> TRUE]
            /\ pc = "update" => x = spec
      BY <2>7 DEF Work
    <3>2. wk' \in Working /\ wk'.pc = pc /\ wk'.fresh /\ wk'.user = spec /\ wk'.seen = s /\ wk'.x = x
      BY <2>1, <2>2, <2>3, <3>1 DEF Working, SpecValues
    <3>3. status' \in [F -> SpecValues] \cup {Absent}
      BY <2>7 DEF TypeOK, SpecValues
    <3> QED
      BY <1>2, <3>1, <3>2, <3>3 DEF s, x
  <2> QED
    BY <2>4, <2>6, <2>7
<1> QED
  BY <1>1, <1>2

LEMMA Moves ==
    ASSUME TypeOK, NEW r \in Working, wk' = r \/ wk' = [r EXCEPT !.fresh = FALSE]
                                      \/ wk' = [r EXCEPT !.pc = "update"]
    PROVE  /\ wk' \in Working
           /\ wk'.x = r.x /\ wk'.user = r.user /\ wk'.seen = r.seen
           /\ wk'.pc = r.pc \/ wk'.pc = "update"
<1>1. CASE wk' = r
  BY <1>1
<1>2. CASE wk' = [r EXCEPT !.fresh = FALSE]
  BY <1>2 DEF Working
<1>3. CASE wk' = [r EXCEPT !.pc = "update"]
  BY <1>3 DEF Working
<1> QED
  BY <1>1, <1>2, <1>3

LEMMA TypeStep ==
    ASSUME AllWellFormed, TypeInv, [Next]_vars
    PROVE  TypeInv'
<1>0. WellFormed(k, F) /\ slice' = slice /\ F' = F /\ k' = k /\ TypeOK /\ Made /\ slice \in Slices
  BY SameSlice DEF AllWellFormed, TypeInv, k, F
<1> DEFINE TypeNext ==
             /\ spec' \in Specs /\ wish' \in Specs
             /\ obj' \in Object \cup {Absent}
             /\ status' \in [F -> SpecValues] \cup {Absent}
             /\ wk' \in Working \cup {Idle}
             /\ other' \in BOOLEAN /\ quiet' \in BOOLEAN
             /\ left' \in [{"edit", "drift", "abort"} -> Nat]
           MadeNext ==
             /\ wk'.pc \in {"late", "update"} =>
                  Answers(wk'.seen) /\ wk'.x = lateInitialize(wk'.user, wk'.seen)
             /\ wk'.pc \in {"create", "update"} /\ wk'.fresh => spec' = wk'.x
             /\ wk'.pc = "late" /\ wk'.fresh => spec' = wk'.user
<1> SUFFICES TypeNext /\ MadeNext
  BY <1>0, SameTypes, SameMade DEF TypeInv
<1>1. /\ spec \in Specs /\ wish \in Specs /\ obj \in Object \cup {Absent}
      /\ status \in [F -> SpecValues] \cup {Absent} /\ wk \in Working \cup {Idle}
      /\ other \in BOOLEAN /\ quiet \in BOOLEAN /\ left \in [{"edit", "drift", "abort"} -> Nat]
  BY <1>0 DEF TypeOK, SpecValues
<1>2. wk \in Working => wk.pc \in {"late", "create", "update"} /\ wk # Idle /\ wk.x \in Specs
                        /\ wk.user \in Specs /\ wk.fresh \in BOOLEAN
  BY DEF Working, Idle
<1>3. Idle.pc = "idle"
  BY DEF Idle
<1>4. CASE EditSpec
  <2>1. spec' \in Specs /\ wish' \in Specs /\ other' \in BOOLEAN
    <3>1. CASE other' = TRUE /\ UNCHANGED <<spec, wish>>
      BY <1>1, <3>1
    <3>2. CASE ~(other' = TRUE /\ UNCHANGED <<spec, wish>>)
      <4>1. PICK f \in F \ k.immutable : \E v \in Settable(f) \ {spec[f]} :
               spec' = [spec EXCEPT ![f] = v] /\ wish' = [wish EXCEPT ![f] = v] /\ UNCHANGED other
        BY <1>4, <3>2 DEF EditSpec
      <4>2. PICK v \in Settable(f) \ {spec[f]} :
               spec' = [spec EXCEPT ![f] = v] /\ wish' = [wish EXCEPT ![f] = v] /\ UNCHANGED other
        BY <4>1
      <4>3. [spec EXCEPT ![f] = v] \in Specs /\ [wish EXCEPT ![f] = v] \in Specs
        BY <1>1, EditedSpec
      <4> QED
        BY <1>1, <4>2, <4>3
    <3> QED
      BY <3>1, <3>2
  <2>2. left' \in [{"edit", "drift", "abort"} -> Nat]
    BY <1>1, <1>4, SpendType DEF EditSpec
  <2>3. obj' = obj /\ status' = status /\ quiet' = FALSE
        /\ wk' = IF wk = Idle THEN Idle ELSE [wk EXCEPT !.fresh = FALSE]
    BY <1>4 DEF EditSpec
  <2>4. CASE wk = Idle
    BY <1>1, <1>3, <2>1, <2>2, <2>3, <2>4
  <2>5. CASE wk # Idle
    <3>1. wk \in Working /\ wk' = [wk EXCEPT !.fresh = FALSE]
      BY <1>1, <2>3, <2>5
    <3>2. wk'.fresh = FALSE /\ wk'.pc = wk.pc
      BY <3>1 DEF Working
    <3> QED
      BY <1>0, <1>1, <2>1, <2>2, <2>3, <3>1, <3>2, Moves DEF Made
  <2> QED
    BY <2>4, <2>5
<1>5. CASE Drift
  <2>1. obj' \in Object \cup {Absent} /\ other' \in BOOLEAN /\ quiet' = FALSE
    <3>1. CASE \E f \in F \ k.immutable : \E v \in Holds(f) \ {obj[f]} :
                 obj' = [obj EXCEPT ![f] = v] /\ UNCHANGED other
      <4>1. PICK f \in F \ k.immutable : \E v \in Holds(f) : obj' = [obj EXCEPT ![f] = v] /\ UNCHANGED other
        BY <3>1
      <4>2. obj \in Object /\ quiet' = FALSE
        BY <1>1, <1>5 DEF Drift
      <4>3. PICK v \in Holds(f) : obj' = [obj EXCEPT ![f] = v] /\ UNCHANGED other
        BY <4>1
      <4>4. [obj EXCEPT ![f] = v] \in Object
        BY <4>2, DriftedObject
      <4> QED
        BY <1>1, <4>2, <4>3, <4>4
    <3>2. CASE ~\E f \in F \ k.immutable : \E v \in Holds(f) \ {obj[f]} :
                 obj' = [obj EXCEPT ![f] = v] /\ UNCHANGED other
      BY <1>1, <1>5, <3>2 DEF Drift
    <3> QED
      BY <3>1, <3>2
  <2>2. left' \in [{"edit", "drift", "abort"} -> Nat]
    BY <1>1, <1>5, SpendType DEF Drift
  <2>3. spec' = spec /\ wish' = wish /\ status' = status /\ wk' = wk
    BY <1>5 DEF Drift
  <2> QED
    BY <1>0, <1>1, <2>1, <2>2, <2>3 DEF Made
<1>6. CASE Observe
  <2>1. UNCHANGED <<spec, wish, obj, other, quiet, left>> /\ wk = Idle
    BY <1>6 DEF Observe
  <2>2. obj # Absent => Answers(Reported(obj))
    BY <1>1 DEF Answers
  <2> QED
    BY <1>0, <1>1, <1>3, <1>6, <2>1, <2>2, ObserveMade
<1>7. CASE LateInit
  <2>1. wk.pc = "late" /\ UNCHANGED <<wish, obj, other, status, quiet, left>>
        /\ spec' = (IF wk.fresh THEN wk.x ELSE spec)
        /\ wk' = IF wk.fresh /\ ~wk.synced THEN [wk EXCEPT !.pc = "update"] ELSE Idle
    BY <1>7 DEF LateInit
  <2>2. wk \in Working
    BY <1>1, <1>3, <2>1
  <2>3. spec' \in Specs
    BY <1>1, <1>2, <2>1, <2>2
  <2>4. CASE wk.fresh /\ ~wk.synced
    <3>1. wk' = [wk EXCEPT !.pc = "update"] /\ spec' = wk.x
      BY <2>1, <2>4
    <3>2. wk'.pc = "update"
      BY <2>2, <3>1 DEF Working
    <3> QED
      BY <1>0, <1>1, <2>1, <2>2, <2>3, <3>1, <3>2, Moves DEF Made
  <2>5. CASE ~(wk.fresh /\ ~wk.synced)
    BY <1>1, <1>3, <2>1, <2>3, <2>5
  <2> QED
    BY <2>4, <2>5
<1>8. CASE Create
  <2>1. wk' = Idle /\ UNCHANGED <<spec, wish, status, left>> /\ wk.pc = "create"
    BY <1>8 DEF Create
  <2>2. wk \in Working
    BY <1>1, <1>3, <2>1
  <2>3. \/ obj' \in Posts(wk.x) /\ other' = FALSE /\ quiet' = wk.fresh
        \/ UNCHANGED <<obj, other, quiet>>
    BY <1>8 DEF Create
  <2> QED
    BY <1>1, <1>2, <1>3, <2>1, <2>2, <2>3, PostCarries
<1>9. CASE Update
  <2>1. wk' = Idle /\ UNCHANGED <<spec, wish, left>> /\ wk.pc = "update"
    BY <1>9 DEF Update
  <2>2. wk \in Working
    BY <1>1, <1>3, <2>1
  <2>3. \/ obj # Absent /\ obj' = Put(obj, wk.x) /\ other' = FALSE /\ quiet' = wk.fresh
        \/ UNCHANGED <<obj, other, quiet>>
    BY <1>9 DEF Update
  <2>4. obj' \in Object \cup {Absent}
    BY <1>0, <1>1, <1>2, <2>2, <2>3, PutCarries
  <2>5. wk.seen \in [F -> SpecValues]
    BY <1>0, <2>1, ReportedType DEF Made, Answers
  <2>6. status' \in [F -> SpecValues] \cup {Absent}
    BY <1>1, <1>2, <1>9, <2>2, <2>5, ShownType DEF Update
  <2> QED
    BY <1>1, <1>2, <1>3, <2>1, <2>2, <2>3, <2>4, <2>6
<1>10. CASE Abort
  <2>1. wk' = Idle /\ UNCHANGED <<spec, wish, obj, other, status, quiet>>
    BY <1>10 DEF Abort
  <2>2. left' \in [{"edit", "drift", "abort"} -> Nat]
    BY <1>1, <1>10, SpendType DEF Abort
  <2> QED
    BY <1>1, <1>3, <2>1, <2>2
<1>11. CASE UNCHANGED vars
  BY <1>0, <1>1, <1>11 DEF vars, Made
<1> QED
  BY <1>4, <1>5, <1>6, <1>7, <1>8, <1>9, <1>10, <1>11 DEF Next, Reconcile

LEMMA TypeInit ==
    ASSUME AllWellFormed, Init
    PROVE  TypeInv
<1>1. spec \in Specs /\ wish \in Specs /\ obj \in Object \cup {Absent}
  BY DEF Init, Adoptable
<1>2. wk = Idle /\ wk.pc = "idle" /\ status = Absent
  BY DEF Init, Idle
<1>3. left \in [{"edit", "drift", "abort"} -> Nat]
  BY FieldSyncConstants DEF Init
<1> QED
  BY <1>1, <1>2, <1>3 DEF Init, TypeInv, TypeOK, Made

\* Whatever users, administrators and failures do, spec and object are ones that the CRD
\* and the Grid allow: what lateInitialize fills in is a value that users might have written,
\* and what is sent is one that the Grid holds.
THEOREM TypeCorrect == AllWellFormed => (Spec => []TypeOK)
<1> SUFFICES ASSUME AllWellFormed PROVE Spec => []TypeOK
  OBVIOUS
<1>1. Init => TypeInv
  BY TypeInit
<1>2. TypeInv /\ [Next]_vars => TypeInv'
  BY TypeStep
<1>3. TypeInv => TypeOK
  BY DEF TypeInv
<1> QED
  BY <1>1, <1>2, <1>3, PTL DEF Spec

-----------------------------------------------------------------------------
(***************************************************************************)
(* What the provider has written it is content with.                       *)
(***************************************************************************)
LEMMA SettleStep ==
    ASSUME AllWellFormed, AllAgree, TypeInv, SettleInv, [Next]_vars
    PROVE  SettleInv'
<1>0. /\ WellFormed(k, F) /\ Agree(k) /\ KnownAtFace(slice) /\ TypeOK /\ Made
      /\ slice' = slice /\ F' = F /\ k' = k
  BY SameSlice DEF AllWellFormed, AllAgree, TypeInv, k, F
<1>1. spec \in Specs /\ obj \in Object \cup {Absent} /\ wk \in Working \cup {Idle}
  BY <1>0 DEF TypeOK
<1>2. wk \in Working => wk.pc \in {"late", "create", "update"} /\ wk # Idle /\ wk.x \in Specs
                        /\ wk.fresh \in BOOLEAN
  BY DEF Working, Idle
<1>3. Idle.pc = "idle"
  BY DEF Idle
<1> SUFFICES ASSUME quiet', obj' # Absent
             PROVE  /\ (Content(spec', obj') \/ Torn(spec')) /\ ~other'
                    /\ wk'.pc \in {"late", "update"} => wk'.fresh /\ wk'.seen = Reported(obj')
  BY <1>0, SameContent DEF SettleInv
<1>4. CASE EditSpec \/ Drift
  BY <1>4 DEF EditSpec, Drift
<1>5. CASE Observe
  <2>1. UNCHANGED <<spec, obj, other, quiet>> /\ wk = Idle
    BY <1>5 DEF Observe
  <2> QED
    BY <1>0, <1>3, <1>5, <2>1, ObserveMade DEF SettleInv
<1>6. CASE LateInit
  <2>1. wk.pc = "late" /\ UNCHANGED <<obj, other, quiet>>
        /\ spec' = (IF wk.fresh THEN wk.x ELSE spec)
        /\ wk' = IF wk.fresh /\ ~wk.synced THEN [wk EXCEPT !.pc = "update"] ELSE Idle
    BY <1>6 DEF LateInit
  <2>2. wk \in Working
    BY <1>1, <1>3, <2>1
  <2>3. wk.fresh /\ wk.seen = Reported(obj) /\ (Content(spec, obj) \/ Torn(spec)) /\ ~other
    BY <2>1 DEF SettleInv
  <2>4. spec' = lateInitialize(spec, Reported(obj))
    BY <1>0, <2>1, <2>3 DEF Made
  <2>5. Content(spec', obj) \/ Torn(spec')
    BY <1>0, <2>3, <2>4, LateTwice, LateTorn DEF Content
  <2>6. wk'.pc \in {"late", "update"} => wk'.fresh /\ wk'.seen = wk.seen
    BY <1>3, <2>1, <2>2, <2>3 DEF Working
  <2> QED
    BY <2>1, <2>3, <2>5, <2>6
<1>7. CASE Create
  <2>1. wk' = Idle /\ spec' = spec /\ wk.pc = "create"
    BY <1>7 DEF Create
  <2>2. CASE UNCHANGED <<obj, other, quiet>>
    BY <1>3, <2>1, <2>2 DEF SettleInv
  <2>3. CASE obj' \in Posts(wk.x) /\ other' = FALSE /\ quiet' = wk.fresh
    <3>1. spec = wk.x
      BY <1>0, <2>1, <2>3 DEF Made
    <3>2. k.compared \subseteq k.created /\ \A f \in DOMAIN k.gate : k.gate[f] \in k.created
      BY <1>0 DEF Agree
    <3>3. obj' \in Object /\ Carried(spec, obj', k.created)
      BY <2>3, <3>1, PostCarries
    <3> QED
      BY <1>0, <1>1, <1>3, <2>1, <2>3, <3>2, <3>3, CarriedContent
  <2> QED
    BY <1>7, <2>2, <2>3 DEF Create
<1>8. CASE Update
  <2>1. wk' = Idle /\ spec' = spec /\ wk.pc = "update"
    BY <1>8 DEF Update
  <2>2. CASE UNCHANGED <<obj, other, quiet>>
    BY <1>3, <2>1, <2>2 DEF SettleInv
  <2>3. CASE obj # Absent /\ obj' = Put(obj, wk.x) /\ other' = FALSE /\ quiet' = wk.fresh
    <3>1. spec = wk.x
      BY <1>0, <2>1, <2>3 DEF Made
    <3>2. k.compared \subseteq k.updated /\ \A f \in DOMAIN k.gate : k.gate[f] \in k.updated
      BY <1>0 DEF Agree
    <3>3. obj' \in Object /\ Carried(spec, obj', k.updated)
      BY <1>0, <1>1, <2>3, <3>1, PutCarries
    <3> QED
      BY <1>0, <1>1, <1>3, <2>1, <2>3, <3>2, <3>3, CarriedContent
  <2> QED
    BY <1>8, <2>2, <2>3 DEF Update
<1>9. CASE Abort
  BY <1>3, <1>9 DEF Abort, SettleInv
<1>10. CASE UNCHANGED vars
  BY <1>10 DEF vars, SettleInv
<1> QED
  BY <1>4, <1>5, <1>6, <1>7, <1>8, <1>9, <1>10 DEF Next, Reconcile

\* After the provider has created or updated an object, and as long as neither a user nor
\* an administrator writes, no Observe calls for another Update: for every kind whose
\* isUpToDate compares nothing but what its Create and Update send, and whose
\* lateInitialize fills in what they leave to the Grid.  Excepted are a spec that sets
\* joined flags apart and an entry that is known to be compared at face value.
THEOREM PutSettlesHolds == AllWellFormed /\ AllAgree => (Spec => []PutSettles)
<1> SUFFICES ASSUME AllWellFormed, AllAgree PROVE Spec => []PutSettles
  OBVIOUS
<1>1. Init => TypeInv /\ SettleInv
  BY TypeInit DEF Init, SettleInv
<1>2. TypeInv /\ SettleInv /\ [Next]_vars => TypeInv' /\ SettleInv'
  BY TypeStep, SettleStep
<1>3. SettleInv => PutSettles
  BY DEF SettleInv, PutSettles, Content
<1> QED
  BY <1>1, <1>2, <1>3, PTL DEF Spec

\* Where the status agrees with what a user has set, and with the fields that are the
\* user's alone, the provider has nothing to write that would be of use: for every kind
\* whose status shows what isUpToDate compares.
THEOREM ComparableHolds == AllWellFormed /\ AllAgree => (Spec => []Comparable)
<1> SUFFICES ASSUME AllWellFormed, AllAgree PROVE Spec => []Comparable
  OBVIOUS
<1>1. Init => TypeInv
  BY TypeInit
<1>2. TypeInv /\ [Next]_vars => TypeInv'
  BY TypeStep
<1>3. TypeInv => Comparable
  <2> SUFFICES ASSUME TypeInv, obj # Absent, Agrees(spec, Shown(spec, Reported(obj)))
               PROVE  Content(spec, obj)
    BY DEF Comparable, Content
  <2>1. WellFormed(k, F) /\ Agree(k) /\ KnownAtFace(slice) /\ spec \in Specs /\ obj \in Object
    BY DEF AllWellFormed, AllAgree, TypeInv, TypeOK, k, F
  <2> QED
    BY <2>1, AgreesContent
<1> QED
  BY <1>1, <1>2, <1>3, PTL DEF Spec

\* An Update for the sake of one field leaves every other field that the user has not set
\* as it is, or as Observe has read it, though Update sends them all: for every kind whose
\* lateInitialize fills in what Update would otherwise send as its zero.
THEOREM LeavesAloneHolds == AllWellFormed /\ AllPreserve => (Spec => LeavesAlone)
<1> SUFFICES ASSUME AllWellFormed, AllPreserve PROVE Spec => LeavesAlone
  OBVIOUS
<1> DEFINE Left == wk.pc = "update" /\ wk' = Idle /\ obj # Absent =>
                     \A f \in F \ (k.owned \cup k.forced) :
                        IsUnset(f, wk.user[f]) /\ Governed(f, obj') => obj'[f] \in {obj[f], wk.seen[f]}
<1>1. Init => TypeInv
  BY TypeInit
<1>2. TypeInv /\ [Next]_vars => TypeInv'
  BY TypeStep
<1>3. TypeInv /\ [Next]_vars => [Left]_vars
  <2> SUFFICES ASSUME TypeInv, Next, wk.pc = "update", wk' = Idle, obj # Absent,
                      NEW f \in F \ (k.owned \cup k.forced), IsUnset(f, wk.user[f]), Governed(f, obj')
               PROVE  obj'[f] \in {obj[f], wk.seen[f]}
    OBVIOUS
  <2>1. WellFormed(k, F) /\ Preserves(k) /\ obj \in Object /\ wk \in Working \cup {Idle} /\ Made
    BY DEF AllWellFormed, AllPreserve, TypeInv, TypeOK, k, F
  <2>2. Idle.pc = "idle"
    BY DEF Idle
  <2>3. wk \in Working /\ wk.user \in Specs
    BY <2>1, <2>2 DEF Working
  <2>4. CASE obj' = obj
    BY <2>4
  <2>5. CASE obj' = Put(obj, wk.x)
    <3>1. PICK r \in Object : wk.seen = Reported(r)
      BY <2>1 DEF Made, Answers
    <3>2. wk.x = lateInitialize(wk.user, Reported(r))
      BY <2>1, <3>1 DEF Made
    <3> QED
      BY <2>1, <2>3, <2>5, <3>1, <3>2, PutLeaves
  <2>6. Update \/ Abort
    <3>1. ~EditSpec /\ ~Drift
      <4>1. EditSpec => wk' = [wk EXCEPT !.fresh = FALSE]
        BY <2>2 DEF EditSpec
      <4>2. [wk EXCEPT !.fresh = FALSE].pc = wk.pc
        BY <2>3 DEF Working
      <4> QED
        BY <2>2, <4>1, <4>2 DEF Drift
    <3>2. ~Observe /\ ~LateInit /\ ~Create
      BY <2>2 DEF Observe, LateInit, Create
    <3> QED
      BY <3>1, <3>2 DEF Next, Reconcile
  <2> QED
    BY <2>4, <2>5, <2>6 DEF Update, Abort
<1> QED
  BY <1>1, <1>2, <1>3, PTL DEF Spec, LeavesAlone

=============================================================================
