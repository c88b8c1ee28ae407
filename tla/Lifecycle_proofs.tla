-------------------------- MODULE Lifecycle_proofs --------------------------
(***************************************************************************)
(* The safety properties of Lifecycle, for every table of controllers      *)
(* whose programs make their calls in the right order, and for any number  *)
(* of keys, values, edits and events.                                      *)
(***************************************************************************)
EXTENDS Lifecycle, FiniteSetTheorems, SequenceTheorems, WellFoundedInduction, TLAPS

-----------------------------------------------------------------------------
(***************************************************************************)
(* The conditions on the tables.  Controllers says what each is; the run   *)
(* references evaluates them for every controller there is.                *)
(***************************************************************************)
TracksInOrder   == \A s \in Subjects : TracksFirst(Kinds[s.kind][s.scope])
SearchesInOrder == \A s \in Subjects : SearchesFirst(Kinds[s.kind][s.scope], s.kind \in FixedKeys)
ChecksInOrder   == \A s \in Subjects : ChecksFirst(Kinds[s.kind][s.scope])
AllRecordSafely == \A s \in Subjects : RecordsSafely(Kinds[s.kind][s.scope])

-----------------------------------------------------------------------------
(***************************************************************************)
(* The inductive invariants.  What a reconcile knows is told by the steps  *)
(* that it has still to make.                                              *)
(***************************************************************************)
Due(step) == Among(step, wk.todo)
Guarded   == Among("guard", S.client.observe)
Reserving == Among("reserved", S.client.update)
Keeping   == Among("wellKnown", S.client.delete)
Unowned   == {r \in Ref : Exists(r) /\ grid[r].own = "nobody"}

\* What was found has been seen, and what is sent has been filled in.
Known ==
    /\ wk # Idle => wk.todo # <<>>
    /\ Due("decide") /\ wk.how # "none" => wk.at \in Ref /\ wk.seen \in Object
    /\ Due("decide") /\ wk.how \in {"found", "adopted"} => wk.mr.ext = wk.at
    /\ Due("put") => wk.mr.val \in Val /\ wk.mr.ext \in Ref
    /\ Due("post") \/ Due("put") => ~Due("decide")

TypeInv == TypeOK /\ Known

\* Each function has its own steps, and the runtime's come before them.
Shaped(steps) ==
    /\ NoneAfter({"decide", "unfinalize"}, Steps, steps)
    /\ NoneAfter(Steps, {"finalizer"}, steps)
    /\ Among("decide", steps) => steps \in Seq(ConnectSteps \cup ObserveSteps \cup {"decide"})
    /\ Among("finalizer", steps) =>
         steps \in Seq({"finalizer", "pending", "late"} \cup CreateSteps \cup UpdateSteps)
    /\ Among("post", steps) => steps \in Seq({"finalizer", "pending"} \cup CreateSteps)
    /\ Among("put", steps) => steps \in Seq({"finalizer", "late"} \cup UpdateSteps)
    /\ Among("delete", steps) => steps \in Seq(DeleteSteps)

\* The reconcile's copy of the resource.
Copies ==
    /\ wk # Idle => mr # NoMR
    /\ wk # Idle /\ wk.fresh =>
         /\ Managed
         /\ mr.phase = wk.mr.phase /\ mr.fin = wk.mr.fin /\ mr.key = wk.mr.key
    /\ wk # Idle /\ wk.mr.fin => Managed /\ mr.fin
    /\ ~Renamable /\ Managed /\ wk # Idle => wk.mr.key = mr.key

WorkInv == TypeInv /\ Shaped(wk.todo) /\ Copies

\* The use of the ProviderConfig is on record once the reconcile has tracked it, and
\* holds it from then on.
ConfigInv ==
    /\ Followed(wk.todo)
    /\ Managed /\ wk # Idle /\ ~Due("track") => config.used
    /\ Managed /\ wk # Idle /\ ~Due("config") /\ ~Due("byKind") => config.phase # "gone"
    /\ Managed /\ mr.fin => config.used /\ config.phase # "gone"

\* Observe searches when Connect is over, and decides when it has found something.
SearchInv ==
    /\ Due("guard") => Guarded
    /\ Due("decide") /\ ~Guarded =>
         /\ NoneAfter(Lookups, ConnectSteps \cup {"guard"}, wk.todo)
         /\ wk.how # "none" => \A x \in Steps : Due(x) => x = "decide"

\* The search that cannot miss the object.
Proof == IF Stamped THEN "uid" ELSE "key"

\* An object exists under the finalizer alone, and is known to be absent when it is made
\* or given up.
OrphanInv ==
    /\ NoneAfter({"post"}, {"post"}, wk.todo)
    /\ Due("post") \/ Due("put") => wk.mr.fin \/ Due("finalizer")
    /\ ~Guarded =>
         /\ Mine # {} => Managed /\ mr.fin
         /\ Due("decide") /\ wk.how = "none" /\ ~Due(Proof) => Mine = {}
         /\ Due("post") \/ Due("unfinalize") => Mine = {}
         /\ ~Stamped /\ Managed => \A r \in Mine : r.key = mr.key

\* A resource that refers to an object that nobody has stamped has none of its own.
TwinInv ==
    /\ NoneAfter({"put"}, {"put"}, wk.todo)
    /\ Due("key") => ~Stamped
    /\ Due("put") => wk.how # "none" /\ wk.mr.ext = wk.at
    /\ Due("decide") /\ Managed => mr.ext = wk.mr.ext
    /\ ~Guarded =>
         /\ \A r, q \in Mine : r = q
         /\ Stamped =>
              /\ Managed /\ mr.ext \in Unowned => Mine = {}
              /\ Managed /\ wk # Idle /\ wk.mr.ext \in Unowned => mr.ext = wk.mr.ext
              /\ Managed /\ Due("decide") /\ wk.how = "none" /\ ~Due("ref") => mr.ext \notin Unowned
              /\ Managed /\ Due("post") => mr.ext \notin Unowned
              /\ wk # Idle /\ wk.how \in {"found", "recovered"} /\ wk.at \in Ref /\ Exists(wk.at)
                   => wk.at \in Mine
              /\ (Due("decide") \/ Due("put")) /\ wk.how = "adopted" /\ Exists(wk.at)
                   => wk.at \in Unowned
              /\ Due("decide") /\ wk.how # "none" => Mine \subseteq {wk.at}

\* What is about to be changed or deleted has been recognised.
Untouchable(x) == x \in Ref /\ Exists(x) /\ x.key = Reserved
ReservedInv ==
    /\ Reserving =>
         /\ NoneAfter({"put", "delete"}, {"resolved"}, wk.todo)
         /\ ~Due("uid") /\ ~Due("key")
         /\ Due("decide") \/ Due("delete") => wk.at \in {wk.mr.ext, NoRef}
         /\ (Due("put") \/ Due("delete")) /\ ~Due("resolved") => ~Untouchable(wk.mr.ext)
    /\ Keeping =>
         /\ NoneAfter(Lookups \cup {"delete"}, {"wellKnown"}, wk.todo)
         /\ Due("wellKnown") => wk.mr.ext = wk.at /\ wk.at \in Ref /\ Mine \subseteq {wk.at}
         /\ Due("delete") /\ ~Due("wellKnown") =>
              /\ \A r \in Mine : r.key # Reserved
              /\ wk.at # NoRef => wk.at.key # Reserved
              /\ wk.mr.ext # NoRef => wk.mr.ext.key # Reserved

-----------------------------------------------------------------------------
(***************************************************************************)
(* Sequences of steps.                                                     *)
(***************************************************************************)
\* t is what is left of s after its first steps.
Suffix(t, s) ==
    /\ Len(t) <= Len(s)
    /\ \A i \in 1..Len(t) : t[i] = s[i + (Len(s) - Len(t))]

LEMMA TailSuffix ==
    ASSUME NEW X, NEW s \in Seq(X), s # <<>>
    PROVE  /\ Tail(s) \in Seq(X) /\ Suffix(Tail(s), s) /\ Head(s) \in X
           /\ Len(Tail(s)) = Len(s) - 1 /\ s[1] = Head(s)
  BY DEF Suffix

LEMMA SuffixTrans ==
    ASSUME NEW X, NEW s \in Seq(X), NEW t \in Seq(X), NEW u \in Seq(X), Suffix(t, s), Suffix(u, t)
    PROVE  Suffix(u, s)
  BY DEF Suffix

LEMMA SuffixAmong ==
    ASSUME NEW X, NEW s \in Seq(X), NEW t \in Seq(X), Suffix(t, s), NEW x, Among(x, t)
    PROVE  Among(x, s)
  BY DEF Suffix, Among

LEMMA SuffixNoneAfter ==
    ASSUME NEW X, NEW s \in Seq(X), NEW t \in Seq(X), Suffix(t, s), NEW A, NEW B, NoneAfter(A, B, s)
    PROVE  NoneAfter(A, B, t)
<1> SUFFICES ASSUME NEW i \in 1..Len(t), NEW j \in 1..Len(t), i < j, t[i] \in A PROVE t[j] \notin B
  BY DEF NoneAfter
<1>1. i + (Len(s) - Len(t)) \in 1..Len(s) /\ j + (Len(s) - Len(t)) \in 1..Len(s)
  BY DEF Suffix
<1> QED BY <1>1 DEF NoneAfter, Suffix

LEMMA SuffixFollowed ==
    ASSUME NEW X, NEW s \in Seq(X), NEW t \in Seq(X), Suffix(t, s), Followed(s)
    PROVE  Followed(t)
<1> SUFFICES ASSUME NEW i \in 1..Len(t), t[i] = "track"
             PROVE  \E j \in 1..Len(t) : i < j /\ t[j] \in {"config", "byKind"}
  BY DEF Followed
<1> DEFINE d == Len(s) - Len(t)
<1>1. d \in Nat /\ i + d \in 1..Len(s) /\ s[i + d] = "track"
  BY DEF Suffix
<1>2. PICK k \in 1..Len(s) : i + d < k /\ s[k] \in {"config", "byKind"}
  BY <1>1 DEF Followed
<1>3. k - d \in 1..Len(t) /\ i < k - d /\ (k - d) + d = k
  BY <1>1, <1>2
<1>4. t[k - d] = s[k]
  BY <1>3 DEF Suffix
<1> QED BY <1>2, <1>3, <1>4

LEMMA SuffixSeq ==
    ASSUME NEW X, NEW s \in Seq(X), NEW t \in Seq(X), Suffix(t, s), NEW Y, s \in Seq(Y)
    PROVE  t \in Seq(Y)
<1>1. \A i \in 1..Len(t) : t[i] \in Y
  BY DEF Suffix
<1> QED BY <1>1, IsASeq

\* The first step is the only one that is not left when the tail is.
LEMMA HeadOrLeft ==
    ASSUME NEW X, NEW s \in Seq(X), s # <<>>, NEW x, Among(x, s)
    PROVE  x = Head(s) \/ Among(x, Tail(s))
<1>1. PICK i \in 1..Len(s) : s[i] = x
  BY DEF Among
<1>2. CASE i = 1
  BY <1>1, <1>2
<1>3. CASE i # 1
  <2>1. i - 1 \in 1..Len(Tail(s)) /\ Tail(s)[i - 1] = x
    BY <1>1, <1>3
  <2>2. DOMAIN Tail(s) = 1..Len(Tail(s))
    OBVIOUS
  <2> QED BY <2>1, <2>2 DEF Among
<1> QED BY <1>2, <1>3

LEMMA HeadAmong ==
    ASSUME NEW X, NEW s \in Seq(X), s # <<>>
    PROVE  Among(Head(s), s)
  BY DEF Among

\* What may not follow the first step is not left.
LEMMA NotLeft ==
    ASSUME NEW X, NEW s \in Seq(X), s # <<>>, NEW A, NEW B, NoneAfter(A, B, s), Head(s) \in A,
           NEW x \in B
    PROVE  ~Among(x, Tail(s))
<1> SUFFICES ASSUME NEW i \in 1..Len(Tail(s)), Tail(s)[i] = x PROVE FALSE
  BY DEF Among
<1>1. i + 1 \in 1..Len(s) /\ s[i + 1] = x /\ 1 \in 1..Len(s) /\ s[1] \in A /\ 1 < i + 1
  OBVIOUS
<1> QED BY <1>1 DEF NoneAfter

LEMMA AmongConcat ==
    ASSUME NEW X, NEW s \in Seq(X), NEW t \in Seq(X), NEW x
    PROVE  Among(x, s \o t) <=> Among(x, s) \/ Among(x, t)
<1>1. s \o t \in Seq(X) /\ Len(s \o t) = Len(s) + Len(t)
  OBVIOUS
<1>2. ASSUME Among(x, s) PROVE Among(x, s \o t)
  BY <1>2 DEF Among
<1>3. ASSUME Among(x, t) PROVE Among(x, s \o t)
  <2>1. PICK i \in 1..Len(t) : t[i] = x
    BY <1>3 DEF Among
  <2>2. i + Len(s) \in 1..Len(s \o t) /\ (s \o t)[i + Len(s)] = x
    BY <1>1, <2>1
  <2> QED BY <2>2, <1>1 DEF Among
<1>4. ASSUME Among(x, s \o t) PROVE Among(x, s) \/ Among(x, t)
  <2>1. PICK i \in 1..Len(s \o t) : (s \o t)[i] = x
    BY <1>1, <1>4 DEF Among
  <2>2. CASE i <= Len(s)
    <3>1. i \in 1..Len(s) /\ s[i] = x
      BY <1>1, <2>1, <2>2
    <3> QED BY <3>1 DEF Among
  <2>3. CASE i > Len(s)
    <3>1. i - Len(s) \in 1..Len(t) /\ t[i - Len(s)] = x
      BY <1>1, <2>1, <2>3
    <3> QED BY <3>1 DEF Among
  <2> QED BY <1>1, <2>1, <2>2, <2>3
<1> QED BY <1>2, <1>3, <1>4

LEMMA AmongConcat3 ==
    ASSUME NEW X, NEW s \in Seq(X), NEW t \in Seq(X), NEW u \in Seq(X), NEW x
    PROVE  Among(x, s \o t \o u) <=> Among(x, s) \/ Among(x, t) \/ Among(x, u)
<1>1. s \o t \in Seq(X)
  OBVIOUS
<1>2. Among(x, (s \o t) \o u) <=> Among(x, s \o t) \/ Among(x, u)
  BY <1>1, AmongConcat, Zenon
<1>3. Among(x, s \o t) <=> Among(x, s) \/ Among(x, t)
  BY AmongConcat, Zenon
<1> QED BY <1>2, <1>3, Zenon

LEMMA AmongSeq == ASSUME NEW X, NEW s \in Seq(X), NEW x, Among(x, s) PROVE x \in X
  BY DEF Among

\* There is a first step that is not a look-up, if there is one at all.
LEMMA Least ==
    ASSUME NEW T, T \subseteq Nat, T # {}
    PROVE  \E i \in T : \A j \in T : i <= j
<1> DEFINE R == {p \in Nat \X Nat : p[1] < p[2]}
<1>1. R = OpToRel(<, Nat)
  BY Zenon DEF OpToRel
<1>2. IsWellFoundedOn(R, Nat)
  BY <1>1, NatLessThanWellFounded, Zenon
<1>3. \E i \in T : \A j \in T : ~(<<j, i>> \in R)
  BY <1>2, WFMin, Zenon
<1>4. \A i, j \in T : j < i => <<j, i>> \in R
  OBVIOUS
<1> HIDE DEF R
<1>5. PICK i \in T : \A j \in T : ~(<<j, i>> \in R)
  BY <1>3
<1>6. \A j \in T : ~(j < i)
  BY <1>4, <1>5
<1> QED BY <1>5, <1>6

LEMMA SearchedSuffix ==
    ASSUME NEW w, NEW X, w.todo \in Seq(X), w.todo # <<>>
    PROVE  /\ Searched(w) \in Seq(X) /\ Suffix(Searched(w), w.todo)
           /\ Suffix(Searched(w), Tail(w.todo))
           /\ \A y : y \notin Lookups /\ Among(y, Tail(w.todo)) => Among(y, Searched(w))
<1> DEFINE rest == Tail(w.todo)
           further == {i \in 1..Len(rest) + 1 : i \in DOMAIN rest => rest[i] \notin Lookups}
           n == CHOOSE i \in further : \A j \in further : i <= j
<1>0. rest \in Seq(X) /\ Suffix(rest, w.todo) /\ DOMAIN rest = 1..Len(rest) /\ Len(rest) \in Nat
  BY TailSuffix
<1> HIDE DEF rest
<1>1. further \subseteq Nat /\ Len(rest) + 1 \in further
  BY <1>0
<1>2. n \in further /\ \A j \in further : n <= j
  BY <1>1, Least
<1>3. n \in 1..Len(rest) + 1
  BY <1>2
<1>4. Searched(w) = SubSeq(rest, n, Len(rest))
  BY DEF Searched, rest
<1> HIDE DEF n
<1>5. /\ Searched(w) \in Seq(X) /\ Len(Searched(w)) = Len(rest) - n + 1
      /\ \A i \in 1..(Len(rest) - n + 1) : Searched(w)[i] = rest[n + i - 1]
  BY <1>0, <1>3, <1>4, SubSeqProperties
<1>6. Suffix(Searched(w), rest)
  BY <1>0, <1>3, <1>5 DEF Suffix
<1>7. Suffix(Searched(w), w.todo)
  BY <1>0, <1>5, <1>6, SuffixTrans
<1>9. ASSUME NEW y, y \notin Lookups, Among(y, rest) PROVE Among(y, Searched(w))
  <2>1. PICK i \in 1..Len(rest) : rest[i] = y
    BY <1>0, <1>9 DEF Among
  <2>2. n <= i
    BY <1>0, <1>2, <1>9, <2>1
  <2>3. i - n + 1 \in 1..(Len(rest) - n + 1) /\ n + (i - n + 1) - 1 = i
    BY <1>0, <1>3, <2>1, <2>2
  <2>4. Searched(w)[i - n + 1] = y
    BY <1>5, <2>1, <2>3
  <2> QED BY <1>5, <2>3, <2>4 DEF Among
<1> QED BY <1>5, <1>6, <1>7, <1>9 DEF rest

\* What remains when the search is over does not begin with a look-up.
LEMMA SearchedHead ==
    ASSUME NEW w, NEW X, w.todo \in Seq(X), w.todo # <<>>, Searched(w) # <<>>
    PROVE  Head(Searched(w)) \notin Lookups
<1> DEFINE rest == Tail(w.todo)
           further == {i \in 1..Len(rest) + 1 : i \in DOMAIN rest => rest[i] \notin Lookups}
           n == CHOOSE i \in further : \A j \in further : i <= j
<1>0. rest \in Seq(X) /\ DOMAIN rest = 1..Len(rest) /\ Len(rest) \in Nat
  BY TailSuffix
<1> HIDE DEF rest
<1>1. further \subseteq Nat /\ Len(rest) + 1 \in further
  BY <1>0
<1>2. n \in further
  BY <1>1, Least
<1>3. n \in 1..Len(rest) + 1 /\ (n \in 1..Len(rest) => rest[n] \notin Lookups)
  BY <1>0, <1>2
<1>4. Searched(w) = SubSeq(rest, n, Len(rest))
  BY DEF Searched, rest
<1> HIDE DEF n
<1>5. /\ Searched(w) \in Seq(X) /\ Len(Searched(w)) = Len(rest) - n + 1
      /\ \A i \in 1..(Len(rest) - n + 1) : Searched(w)[i] = rest[n + i - 1]
  BY <1>0, <1>3, <1>4, SubSeqProperties
<1> HIDE DEF Searched
<1>6. Len(Searched(w)) # 0
  BY <1>5
<1>7. n \in 1..Len(rest) /\ 1 \in 1..(Len(rest) - n + 1)
  BY <1>0, <1>3, <1>5, <1>6
<1>8. Searched(w)[1] = rest[n]
  BY <1>0, <1>3, <1>5, <1>7
<1> QED BY <1>3, <1>5, <1>7, <1>8

-----------------------------------------------------------------------------
(***************************************************************************)
(* Programs and the work that is left of them.                             *)
(***************************************************************************)
\* The controller that is looked at is one of the tables.
LEMMA SubjectPrograms ==
    ASSUME StartupTypeOK
    PROVE  /\ S \in Programs
           /\ S.connect \in Seq(ConnectSteps) /\ S.client.observe \in Seq(ObserveSteps)
           /\ S.client.create \in Seq(CreateSteps) /\ S.client.update \in Seq(UpdateSteps)
           /\ S.client.delete \in Seq(DeleteSteps)
<1>1. subject.kind \in DOMAIN Kinds /\ subject.scope \in Scopes
  BY StartupConstants DEF StartupTypeOK
<1>2. K \in ControllerTables
  BY <1>1, StartupConstants DEF K
<1>3. S \in Programs
  BY <1>1, <1>2 DEF S, Scopes, ControllerTables
<1> QED BY <1>3 DEF Programs, Clients

\* The steps of one function are steps.
LEMMA AllSteps ==
    /\ ConnectSteps \subseteq Steps /\ ObserveSteps \subseteq Steps /\ CreateSteps \subseteq Steps
    /\ UpdateSteps \subseteq Steps /\ DeleteSteps \subseteq Steps /\ Lookups \subseteq Steps
    /\ {"decide", "finalizer", "pending", "late", "unfinalize"} \subseteq Steps
  BY DEF Steps, ObserveSteps

BeginProgram == S.connect \o S.client.observe \o <<"decide">>
CreateProgram(fin) == Optional(~fin, "finalizer") \o <<"pending">> \o S.client.create
UpdateProgram(fin, late, same) ==
    Optional(~fin, "finalizer") \o Optional(late, "late") \o (IF same THEN <<>> ELSE S.client.update)

LEMMA Concat ==
    ASSUME NEW X, NEW Y, NEW s \in Seq(X), NEW t \in Seq(Y)
    PROVE  s \o t \in Seq(X \cup Y)
<1>1. s \in Seq(X \cup Y) /\ t \in Seq(X \cup Y)
  BY SeqMonotonic
<1> QED BY <1>1

LEMMA BeginSteps ==
    ASSUME StartupTypeOK
    PROVE  /\ BeginProgram \in Seq(ConnectSteps \cup ObserveSteps \cup {"decide"})
           /\ BeginProgram \in Seq(Steps)
           /\ \A x : Among(x, BeginProgram) <=>
                       Among(x, S.connect) \/ Among(x, S.client.observe) \/ x = "decide"
<1>1. S.connect \in Seq(ConnectSteps) /\ S.client.observe \in Seq(ObserveSteps)
  BY SubjectPrograms
<1>2. <<"decide">> \in Seq({"decide"})
  OBVIOUS
<1>3. S.connect \o S.client.observe \in Seq(ConnectSteps \cup ObserveSteps)
  BY <1>1, Concat
<1>4. BeginProgram \in Seq((ConnectSteps \cup ObserveSteps) \cup {"decide"})
  BY <1>2, <1>3, Concat DEF BeginProgram
<1>5. BeginProgram \in Seq(Steps)
  BY <1>4, AllSteps, SeqMonotonic
<1>6. S.connect \in Seq(Steps) /\ S.client.observe \in Seq(Steps) /\ <<"decide">> \in Seq(Steps)
  BY <1>1, AllSteps, SeqMonotonic
<1>8. \A x : Among(x, <<"decide">>) <=> x = "decide"
  BY DEF Among
<1>9. ASSUME NEW x
      PROVE  Among(x, BeginProgram) <=>
                 Among(x, S.connect) \/ Among(x, S.client.observe) \/ x = "decide"
  <2>1. Among(x, BeginProgram) <=>
          Among(x, S.connect) \/ Among(x, S.client.observe) \/ Among(x, <<"decide">>)
    BY <1>6, AmongConcat3, Zenon DEF BeginProgram
  <2> QED BY <1>8, <2>1, Zenon
<1> QED BY <1>4, <1>5, <1>9

LEMMA OptionalSteps ==
    ASSUME NEW b, NEW x
    PROVE  /\ Optional(b, x) \in Seq({x})
           /\ \A y : Among(y, Optional(b, x)) <=> b /\ y = x
<1>1. CASE b
  BY <1>1 DEF Optional, Among
<1>2. CASE ~b
  BY <1>2 DEF Optional, Among
<1> QED BY <1>1, <1>2

LEMMA CreateProgramSteps ==
    ASSUME StartupTypeOK, NEW fin
    PROVE  /\ CreateProgram(fin) \in Seq({"finalizer", "pending"} \cup CreateSteps)
           /\ CreateProgram(fin) \in Seq(Steps)
           /\ \A x : Among(x, CreateProgram(fin)) <=>
                       (~fin /\ x = "finalizer") \/ x = "pending" \/ Among(x, S.client.create)
<1>1. S.client.create \in Seq(CreateSteps)
  BY SubjectPrograms
<1>2. /\ Optional(~fin, "finalizer") \in Seq({"finalizer"})
      /\ \A y : Among(y, Optional(~fin, "finalizer")) <=> ~fin /\ y = "finalizer"
  BY OptionalSteps
<1>3. <<"pending">> \in Seq({"pending"}) /\ \A x : Among(x, <<"pending">>) <=> x = "pending"
  BY DEF Among
<1> HIDE DEF Optional
<1>4. Optional(~fin, "finalizer") \o <<"pending">> \in Seq({"finalizer"} \cup {"pending"})
  BY <1>2, <1>3, Concat
<1>5. CreateProgram(fin) \in Seq(({"finalizer"} \cup {"pending"}) \cup CreateSteps)
  BY <1>1, <1>4, Concat DEF CreateProgram
<1>6. ({"finalizer"} \cup {"pending"}) \cup CreateSteps = {"finalizer", "pending"} \cup CreateSteps
  OBVIOUS
<1>7. CreateProgram(fin) \in Seq(Steps)
  BY <1>5, AllSteps, SeqMonotonic
<1>8. /\ S.client.create \in Seq(Steps) /\ <<"pending">> \in Seq(Steps)
      /\ Optional(~fin, "finalizer") \in Seq(Steps)
  BY <1>1, <1>2, <1>3, AllSteps, SeqMonotonic
<1>10. ASSUME NEW x
       PROVE  Among(x, CreateProgram(fin)) <=>
                (~fin /\ x = "finalizer") \/ x = "pending" \/ Among(x, S.client.create)
  <2>1. Among(x, CreateProgram(fin)) <=>
          Among(x, Optional(~fin, "finalizer")) \/ Among(x, <<"pending">>) \/ Among(x, S.client.create)
    BY <1>8, AmongConcat3, Zenon DEF CreateProgram
  <2> QED BY <1>2, <1>3, <2>1, Zenon
<1> QED BY <1>5, <1>6, <1>7, <1>10

LEMMA UpdateProgramSteps ==
    ASSUME StartupTypeOK, NEW fin, NEW late, NEW same
    PROVE  /\ UpdateProgram(fin, late, same) \in Seq({"finalizer", "late"} \cup UpdateSteps)
           /\ UpdateProgram(fin, late, same) \in Seq(Steps)
           /\ \A x : Among(x, UpdateProgram(fin, late, same)) <=>
                       \/ ~fin /\ x = "finalizer"
                       \/ late /\ x = "late"
                       \/ ~same /\ Among(x, S.client.update)
<1> DEFINE u == IF same THEN <<>> ELSE S.client.update
<1>1. u \in Seq(UpdateSteps) /\ \A x : Among(x, u) <=> ~same /\ Among(x, S.client.update)
  <2>1. CASE same
    BY <2>1 DEF Among
  <2>2. CASE ~same
    BY <2>2, SubjectPrograms
  <2> QED BY <2>1, <2>2
<1>2. /\ Optional(~fin, "finalizer") \in Seq({"finalizer"})
      /\ \A y : Among(y, Optional(~fin, "finalizer")) <=> ~fin /\ y = "finalizer"
  BY OptionalSteps
<1>3. /\ Optional(late, "late") \in Seq({"late"})
      /\ \A y : Among(y, Optional(late, "late")) <=> late /\ y = "late"
  BY OptionalSteps
<1>0. UpdateProgram(fin, late, same) = Optional(~fin, "finalizer") \o Optional(late, "late") \o u
  BY DEF UpdateProgram
<1> HIDE DEF Optional, u
<1>4. Optional(~fin, "finalizer") \o Optional(late, "late") \in Seq({"finalizer"} \cup {"late"})
  BY <1>2, <1>3, Concat
<1>5. UpdateProgram(fin, late, same) \in Seq(({"finalizer"} \cup {"late"}) \cup UpdateSteps)
  BY <1>0, <1>1, <1>4, Concat
<1>6. ({"finalizer"} \cup {"late"}) \cup UpdateSteps = {"finalizer", "late"} \cup UpdateSteps
  OBVIOUS
<1>7. UpdateProgram(fin, late, same) \in Seq(Steps)
  BY <1>5, AllSteps, SeqMonotonic
<1>8. /\ u \in Seq(Steps) /\ Optional(late, "late") \in Seq(Steps)
      /\ Optional(~fin, "finalizer") \in Seq(Steps)
  BY <1>1, <1>2, <1>3, AllSteps, SeqMonotonic
<1>10. ASSUME NEW x
       PROVE  Among(x, UpdateProgram(fin, late, same)) <=>
                       \/ ~fin /\ x = "finalizer"
                       \/ late /\ x = "late"
                       \/ ~same /\ Among(x, S.client.update)
  <2>1. Among(x, Optional(~fin, "finalizer") \o Optional(late, "late") \o u) <=>
          Among(x, Optional(~fin, "finalizer")) \/ Among(x, Optional(late, "late")) \/ Among(x, u)
    BY <1>8, AmongConcat3, Zenon
  <2> QED BY <1>0, <1>1, <1>2, <1>3, <2>1, Zenon
<1> QED BY <1>5, <1>6, <1>7, <1>10

-----------------------------------------------------------------------------
\* A reconcile under way, and what it is after a move.
LEMMA UnderWay ==
    ASSUME TypeInv, wk # Idle
    PROVE  /\ wk \in Works /\ wk.todo \in Seq(Steps) /\ wk.todo # <<>> /\ wk.mr \in MRs
           /\ wk.at \in Ref \cup {NoRef} /\ Tail(wk.todo) \in Seq(Steps)
           /\ Suffix(Tail(wk.todo), wk.todo) /\ Head(wk.todo) \in Steps
<1>1. wk \in Works /\ wk.todo # <<>>
  BY DEF TypeInv, TypeOK, Known
<1>2. wk.todo \in Seq(Steps) /\ wk.mr \in MRs /\ wk.at \in Ref \cup {NoRef}
  BY <1>1 DEF Works
<1> QED BY <1>1, <1>2, TailSuffix

LEMMA NothingDue == ASSUME wk = Idle, NEW x PROVE ~Due(x)
  BY DEF Due, Among, Idle

\* w is left with the steps, or the reconcile is over.
Left(w, steps) ==
    \/ wk' = Idle
    \/ /\ wk' # Idle /\ wk' \in Works /\ steps # <<>> /\ wk'.todo = steps
       /\ wk'.mr = w.mr /\ wk'.fresh = w.fresh /\ wk'.at = w.at /\ wk'.how = w.how
       /\ wk'.seen = w.seen

LEMMA GoLeaves ==
    ASSUME NEW w \in Works, NEW steps \in Seq(Steps), Go(w, steps)
    PROVE  Left(w, steps)
<1>1. CASE steps = <<>>
  BY <1>1 DEF Go, Left
<1>2. CASE steps # <<>>
  <2>1. wk' = [w EXCEPT !.todo = steps]
    BY <1>2 DEF Go
  <2>2. /\ wk' \in Works /\ wk'.todo = steps /\ wk'.mr = w.mr /\ wk'.fresh = w.fresh
        /\ wk'.at = w.at /\ wk'.how = w.how /\ wk'.seen = w.seen
    BY <2>1 DEF Works
  <2>3. wk' # Idle
    BY <1>2, <2>2 DEF Idle
  <2> QED BY <1>2, <2>2, <2>3 DEF Left
<1> QED BY <1>1, <1>2

LEMMA ProceedLeaves ==
    ASSUME TypeInv, wk # Idle, NEW w \in Works, w.todo = wk.todo, Proceed(w)
    PROVE  Left(w, Tail(wk.todo))
<1>1. Tail(wk.todo) \in Seq(Steps)
  BY UnderWay
<1> QED BY <1>1, GoLeaves DEF Proceed

\* The reconcile goes on with some of the steps it had left.
Onward ==
    /\ wk' # Idle /\ wk' \in Works /\ wk'.todo # <<>> /\ Suffix(wk'.todo, wk.todo)
    /\ \A x : Due(x)' => Due(x)
    /\ \A x : Due(x) /\ x # Head(wk.todo) /\ x \notin Lookups => Due(x)'

\* It goes on with the next.
NextStep ==
    /\ Onward /\ wk'.todo = Tail(wk.todo)
    /\ \A x : Due(x) /\ x # Head(wk.todo) => Due(x)'

LEMMA SuffixOnward ==
    ASSUME TypeInv, wk # Idle, NEW w, NEW steps \in Seq(Steps), Left(w, steps), wk' # Idle,
           Suffix(steps, wk.todo),
           \A x : x \notin Lookups /\ Among(x, Tail(wk.todo)) => Among(x, steps)
    PROVE  Onward
<1>1. wk.todo \in Seq(Steps) /\ wk.todo # <<>>
  BY UnderWay
<1>2. wk'.todo = steps /\ wk' \in Works /\ steps # <<>>
  BY DEF Left
<1>3. ASSUME NEW x, Due(x)' PROVE Due(x)
  BY <1>1, <1>2, <1>3, SuffixAmong DEF Due
<1>4. ASSUME NEW x, Due(x), x # Head(wk.todo), x \notin Lookups PROVE Due(x)'
  <2>1. Among(x, Tail(wk.todo))
    BY <1>1, <1>4, HeadOrLeft DEF Due
  <2> QED BY <1>2, <1>4, <2>1 DEF Due
<1> QED BY <1>2, <1>3, <1>4 DEF Onward

LEMMA ProceedOn ==
    ASSUME TypeInv, wk # Idle, NEW w \in Works, w.todo = wk.todo, Proceed(w), wk' # Idle
    PROVE  /\ NextStep /\ wk'.mr = w.mr /\ wk'.fresh = w.fresh /\ wk'.at = w.at
           /\ wk'.how = w.how /\ wk'.seen = w.seen
<1>1. Left(w, Tail(wk.todo))
  BY ProceedLeaves
<1>2. /\ wk.todo \in Seq(Steps) /\ wk.todo # <<>> /\ Tail(wk.todo) \in Seq(Steps)
      /\ Suffix(Tail(wk.todo), wk.todo)
  BY UnderWay
<1>3. Onward
  BY <1>1, <1>2, SuffixOnward
<1>4. wk'.todo = Tail(wk.todo)
  BY <1>1 DEF Left
<1>5. ASSUME NEW x, Due(x), x # Head(wk.todo) PROVE Due(x)'
  BY <1>2, <1>4, <1>5, HeadOrLeft DEF Due
<1> QED BY <1>1, <1>3, <1>4, <1>5 DEF Left, NextStep

LEMMA PassOn ==
    ASSUME TypeInv, wk # Idle, Proceed(wk), wk' # Idle
    PROVE  /\ NextStep /\ wk'.mr = wk.mr /\ wk'.fresh = wk.fresh /\ wk'.at = wk.at
           /\ wk'.how = wk.how /\ wk'.seen = wk.seen
<1>1. wk \in Works
  BY UnderWay
<1> QED BY <1>1, ProceedOn

LEMMA MissedOn ==
    ASSUME TypeInv, wk # Idle, Missed, wk' # Idle
    PROVE  /\ NextStep /\ wk'.mr = wk.mr /\ wk'.fresh = wk.fresh /\ wk'.at = NoRef
           /\ wk'.how = "none" /\ wk'.seen = wk.seen
<1> DEFINE w == [wk EXCEPT !.at = NoRef, !.how = "none"]
<1>1. wk \in Works
  BY UnderWay
<1>2. /\ w \in Works /\ w.todo = wk.todo /\ w.mr = wk.mr /\ w.fresh = wk.fresh /\ w.at = NoRef
      /\ w.how = "none" /\ w.seen = wk.seen
  BY <1>1 DEF Works
<1>3. Proceed(w)
  BY DEF Missed
<1> HIDE DEF w
<1> QED BY <1>2, <1>3, ProceedOn

LEMMA FoundOn ==
    ASSUME TypeInv, wk # Idle, NEW r \in Ref, Exists(r),
           NEW how \in {"found", "adopted", "recovered"}, Found(r, how), wk' # Idle
    PROVE  /\ Onward /\ wk'.mr = wk.mr /\ wk'.fresh = wk.fresh /\ wk'.at = r
           /\ wk'.how = how /\ wk'.seen = grid[r] /\ grid[r] \in Object
           /\ wk'.todo = Searched(wk)
<1> DEFINE w == [wk EXCEPT !.at = r, !.how = how, !.seen = grid[r]]
<1>0. grid[r] \in Object
  BY DEF TypeInv, TypeOK, Grids, Exists
<1>1. wk \in Works /\ wk.todo \in Seq(Steps) /\ wk.todo # <<>>
  BY UnderWay
<1>2. /\ w \in Works /\ w.todo = wk.todo /\ w.mr = wk.mr /\ w.fresh = wk.fresh /\ w.at = r
      /\ w.how = how /\ w.seen = grid[r]
  BY <1>0, <1>1 DEF Works
<1>3. Go(w, Searched(w))
  BY DEF Found
<1> HIDE DEF w
<1>4. Searched(w) = Searched(wk)
  BY <1>2 DEF Searched
<1>5. /\ Searched(wk) \in Seq(Steps) /\ Suffix(Searched(wk), wk.todo)
      /\ \A y : y \notin Lookups /\ Among(y, Tail(wk.todo)) => Among(y, Searched(wk))
  BY <1>1, SearchedSuffix
<1> HIDE DEF Searched
<1>6. Left(w, Searched(wk))
  BY <1>2, <1>3, <1>4, <1>5, GoLeaves
<1>7. Onward
  BY <1>5, <1>6, SuffixOnward
<1> QED BY <1>0, <1>2, <1>6, <1>7 DEF Left

LEMMA AtDue == ASSUME TypeInv, NEW x, At(x) PROVE wk # Idle /\ Due(x) /\ Head(wk.todo) = x
<1>1. wk # Idle /\ Head(wk.todo) = x
  BY DEF At
<1>2. wk.todo \in Seq(Steps) /\ wk.todo # <<>>
  BY <1>1, UnderWay
<1> QED BY <1>1, <1>2, HeadAmong DEF Due

LEMMA FilledFields ==
    ASSUME TypeInv, Due("decide"), wk # Idle, wk.how # "none"
    PROVE  /\ Filled(wk) \in MRs /\ Filled(wk).val \in Val /\ Filled(wk).ext = wk.at /\ wk.at \in Ref
           /\ Filled(wk).phase = wk.mr.phase /\ Filled(wk).fin = wk.mr.fin
           /\ Filled(wk).key = wk.mr.key
<1>1. wk \in Works /\ wk.mr \in MRs
  BY UnderWay
<1>2. /\ wk.at \in Ref /\ wk.seen \in Object
      /\ wk.how \in {"found", "adopted"} => wk.mr.ext = wk.at
  BY DEF TypeInv, Known
<1>3. wk.seen.val \in Val
  BY <1>2 DEF Object
<1>4. wk.how \in {"found", "adopted", "recovered"}
  BY <1>1 DEF Works
<1> DEFINE v == IF wk.mr.val = Unset THEN wk.seen.val ELSE wk.mr.val
           e == IF wk.how = "recovered" THEN wk.at ELSE wk.mr.ext
<1>5. v \in Val /\ e = wk.at
  BY <1>1, <1>2, <1>3, <1>4 DEF MRs
<1>6. Filled(wk) = [wk.mr EXCEPT !.val = v, !.ext = e]
  BY DEF Filled
<1> HIDE DEF v, e
<1> QED BY <1>1, <1>2, <1>5, <1>6 DEF MRs

\* The four ways out of Observe.
LEMMA DecideOn ==
    ASSUME TypeInv, Decide
    PROVE  /\ wk # Idle /\ Due("decide") /\ Head(wk.todo) = "decide"
           /\ \/ /\ wk.how = "none" /\ wk.mr.phase = "deleting"
                 /\ Left(wk, <<"unfinalize">>)
              \/ /\ wk.how = "none" /\ wk.mr.phase = "live"
                 /\ Left(wk, CreateProgram(wk.mr.fin))
              \/ /\ wk.how # "none" /\ wk.mr.phase = "deleting"
                 /\ Left([wk EXCEPT !.mr = Filled(wk)], S.client.delete)
              \/ /\ wk.how # "none" /\ wk.mr.phase = "live"
                 /\ Left([wk EXCEPT !.mr = Filled(wk)],
                         UpdateProgram(wk.mr.fin, Filled(wk) # wk.mr, UpToDate(wk)))
<1>1. wk # Idle /\ Due("decide") /\ Head(wk.todo) = "decide"
  BY AtDue DEF Decide
<1>2. wk \in Works /\ wk.mr.phase \in {"live", "deleting"} /\ StartupTypeOK
  BY <1>1, UnderWay DEF MRs, TypeInv, TypeOK
<1>3. CASE wk.how = "none" /\ wk.mr.phase = "deleting"
  <2>1. Go(wk, <<"unfinalize">>)
    BY <1>3 DEF Decide, ResourceExists
  <2>2. <<"unfinalize">> \in Seq(Steps)
    BY AllSteps
  <2> QED BY <1>1, <1>2, <1>3, <2>1, <2>2, GoLeaves
<1>4. CASE wk.how = "none" /\ wk.mr.phase = "live"
  <2>1. Go(wk, CreateProgram(wk.mr.fin))
    BY <1>4 DEF Decide, ResourceExists, CreateProgram
  <2>2. CreateProgram(wk.mr.fin) \in Seq(Steps)
    BY <1>2, CreateProgramSteps
  <2> QED BY <1>1, <1>2, <1>4, <2>1, <2>2, GoLeaves
<1>5. ASSUME wk.how # "none" PROVE [wk EXCEPT !.mr = Filled(wk)] \in Works
  <2>1. Filled(wk) \in MRs
    BY <1>1, <1>5, FilledFields
  <2> HIDE DEF Filled
  <2> QED BY <1>2, <2>1 DEF Works
<1>6. CASE wk.how # "none" /\ wk.mr.phase = "deleting"
  <2>1. Go([wk EXCEPT !.mr = Filled(wk)], S.client.delete)
    BY <1>6 DEF Decide, ResourceExists
  <2>2. S.client.delete \in Seq(Steps)
    BY <1>2, SubjectPrograms, AllSteps, SeqMonotonic
  <2> QED BY <1>1, <1>5, <1>6, <2>1, <2>2, GoLeaves
<1>7. CASE wk.how # "none" /\ wk.mr.phase = "live"
  <2>1. Go([wk EXCEPT !.mr = Filled(wk)],
           UpdateProgram(wk.mr.fin, Filled(wk) # wk.mr, UpToDate(wk)))
    BY <1>7 DEF Decide, ResourceExists, UpdateProgram
  <2>2. UpdateProgram(wk.mr.fin, Filled(wk) # wk.mr, UpToDate(wk)) \in Seq(Steps)
    BY <1>2, UpdateProgramSteps
  <2> QED BY <1>1, <1>5, <1>7, <2>1, <2>2, GoLeaves
<1> QED BY <1>1, <1>2, <1>3, <1>4, <1>6, <1>7

\* That a creation has begun, or has no outcome, is all that changes of the resource.
Lifts ==
    \/ mr' = mr
    \/ /\ Managed /\ Managed' /\ mr \in MRs /\ mr' \in MRs /\ mr'.phase = mr.phase
       /\ mr'.fin = mr.fin /\ mr'.ext = mr.ext /\ mr'.key = mr.key

LEMMA LiftsMR ==
    ASSUME TypeInv, NEW b \in BOOLEAN, mr' = IF Managed THEN [mr EXCEPT !.begun = b] ELSE mr
    PROVE  Lifts /\ mr' \in MRs \cup {NoMR, Gone}
<1>1. CASE Managed
  <2>1. mr \in MRs
    BY <1>1 DEF TypeInv, TypeOK, Managed, NoMR, Gone
  <2>2. mr' = [mr EXCEPT !.begun = b]
    BY <1>1
  <2>3. /\ mr' \in MRs /\ mr'.phase = mr.phase /\ mr'.fin = mr.fin /\ mr'.ext = mr.ext
        /\ mr'.key = mr.key
    BY <2>1, <2>2 DEF MRs
  <2> QED BY <1>1, <2>1, <2>3 DEF Lifts, Managed
<1>2. CASE ~Managed
  BY <1>2 DEF Lifts, TypeInv, TypeOK
<1> QED BY <1>1, <1>2

LEMMA GiveUpOn ==
    ASSUME TypeInv, GiveUp
    PROVE  wk' = Idle /\ Lifts /\ mr' \in MRs \cup {NoMR, Gone}
<1>1. wk' = Idle /\ mr' = IF Managed THEN [mr EXCEPT !.begun = FALSE] ELSE mr
  BY Zenon DEF GiveUp, Return
<1> QED BY <1>1, LiftsMR

LEMMA UnblockOn ==
    ASSUME TypeInv, Unblock
    PROVE  Outdate /\ Lifts /\ mr' \in MRs \cup {NoMR, Gone}
<1>1. mr' = IF Managed THEN [mr EXCEPT !.begun = FALSE] ELSE mr
  BY DEF Unblock
<1>2. Outdate
  BY DEF Unblock
<1> QED BY <1>1, <1>2, LiftsMR

\* A write of the whole resource.
LEMMA PersistOn ==
    ASSUME TypeInv, wk # Idle, NEW r \in MRs, Persist(r)
    PROVE  \/ wk' = Idle /\ mr' = mr
           \/ wk.fresh /\ mr' = r /\ wk' = Idle
           \/ /\ wk.fresh /\ mr' = r /\ NextStep /\ wk'.mr = r /\ wk'.fresh = wk.fresh
              /\ wk'.at = wk.at /\ wk'.how = wk.how /\ wk'.seen = wk.seen
<1>1. CASE ~wk.fresh
  BY <1>1 DEF Persist, Return
<1>2. CASE wk.fresh
  <2> DEFINE w == [wk EXCEPT !.mr = r]
  <2>1. wk \in Works
    BY UnderWay
  <2>2. /\ w \in Works /\ w.todo = wk.todo /\ w.mr = r /\ w.fresh = wk.fresh /\ w.at = wk.at
        /\ w.how = wk.how /\ w.seen = wk.seen
    BY <2>1 DEF Works
  <2>3. r # Gone
    BY DEF MRs, Gone
  <2>4. mr' = r /\ Proceed(w)
    BY <1>2, <2>3 DEF Persist
  <2> HIDE DEF w
  <2> QED BY <1>2, <2>2, <2>4, ProceedOn
<1> QED BY <1>1, <1>2

-----------------------------------------------------------------------------
(***************************************************************************)
(* Types.                                                                  *)
(***************************************************************************)
LEMMA StartupStep ==
    ASSUME TypeOK, [Next]_vars
    PROVE  StartupTypeOK' /\ subject' = subject
<1>1. left' \in 0..MaxEvents
  <2>1. Spend => left' \in 0..MaxEvents
    BY StartupConstants DEF Spend, TypeOK, StartupTypeOK
  <2>2. left' = left \/ Spend
    BY DEF Next, vars, People, Reconcile, NewMR, EditMR, DeleteMR, Unblock, DeleteConfig, ReleaseConfig, Admin,
           Begin, Track, GetConfig, Guard, ByRef, ByUID, ByKey, RefuseKey, Decide, AddFinalizer, Save,
           RemoveFinalizer, Name, Probe, Check, Post, Put, Delete, Fail, Boot, Install, Discover,
           Start, OpenGate, Record, SyncTimeout, Crash
  <2> QED BY <2>1, <2>2 DEF TypeOK, StartupTypeOK
<1>2. subject' = subject /\ crd' \in {"none", "established", "mapped"}
  BY DEF Next, vars, Boot, Install, Discover, Start, OpenGate, Record, SyncTimeout, Crash,
         TypeOK, StartupTypeOK
<1>3. proc' \in [phase : {"down", "waiting", "running"}, gated : BOOLEAN]
  <2>1. proc \in [phase : {"down", "waiting", "running"}, gated : BOOLEAN]
    BY DEF TypeOK, StartupTypeOK
  <2>2. CASE proc' = proc \/ proc' = Down
    <3>1. Down \in [phase : {"down", "waiting", "running"}, gated : BOOLEAN]
      BY DEF Down
    <3> QED BY <2>1, <2>2, <3>1, Zenon
  <2>3. CASE Start
    <3>1. \/ proc' = [phase |-> "waiting", gated |-> TRUE]
          \/ proc' = [phase |-> "running", gated |-> FALSE]
      BY <2>3 DEF Start
    <3>2. /\ [phase |-> "waiting", gated |-> TRUE]
               \in [phase : {"down", "waiting", "running"}, gated : BOOLEAN]
          /\ [phase |-> "running", gated |-> FALSE]
               \in [phase : {"down", "waiting", "running"}, gated : BOOLEAN]
      OBVIOUS
    <3> QED BY <3>1, <3>2, Zenon
  <2>4. CASE OpenGate
    BY <2>1, <2>4 DEF OpenGate
  <2> QED
    BY <2>2, <2>3, <2>4 DEF Next, vars, Boot, Install, Discover, Record, SyncTimeout, Crash
<1> QED BY <1>1, <1>2, <1>3 DEF TypeOK, StartupTypeOK

\* What the reconcile knows stays known while it goes on.
LEMMA KnownOnward ==
    ASSUME TypeInv, Onward, wk'.mr = wk.mr,
           \/ wk'.at = wk.at /\ wk'.how = wk.how /\ wk'.seen = wk.seen
           \/ wk'.how = "none"
           \/ /\ wk'.at \in Ref /\ wk'.seen \in Object
              /\ wk'.how \in {"found", "adopted"} => wk.mr.ext = wk'.at
    PROVE  Known'
<1>1. Due("decide")' => Due("decide")
  BY DEF Onward
<1>2. (Due("put")' => Due("put")) /\ (Due("post")' => Due("post"))
  BY DEF Onward
<1> QED BY <1>1, <1>2 DEF Onward, Known, TypeInv

LEMMA KnownIdle == ASSUME wk' = Idle PROVE Known' /\ wk' \in Works \cup {Idle}
<1>1. ~Due("decide")' /\ ~Due("put")' /\ ~Due("post")'
  BY DEF Due, Among, Idle
<1> QED BY <1>1 DEF Known

LEMMA KnownSame == ASSUME TypeInv, wk' = wk PROVE Known' /\ wk' \in Works \cup {Idle}
  BY DEF TypeInv, TypeOK, Known, Due

LEMMA KnownOutdated == ASSUME TypeInv, Outdate PROVE Known' /\ wk' \in Works \cup {Idle}
<1>1. CASE wk = Idle
  BY <1>1, KnownIdle DEF Outdate
<1>2. CASE wk # Idle
  <2>1. wk \in Works /\ wk.todo # <<>>
    BY <1>2, UnderWay
  <2>2. wk' = [wk EXCEPT !.fresh = FALSE]
    BY <1>2 DEF Outdate
  <2>3. /\ wk' \in Works /\ wk'.todo = wk.todo /\ wk'.mr = wk.mr /\ wk'.at = wk.at
        /\ wk'.how = wk.how /\ wk'.seen = wk.seen
    BY <2>1, <2>2 DEF Works
  <2> QED BY <1>2, <2>1, <2>3 DEF Known, TypeInv, Due
<1> QED BY <1>1, <1>2

\* Moves that leave all but the steps alone.
LEMMA KnownPassed ==
    ASSUME TypeInv, wk # Idle, Proceed(wk) \/ Return
    PROVE  Known' /\ wk' \in Works \cup {Idle}
<1>1. CASE wk' = Idle
  BY <1>1, KnownIdle
<1>2. CASE wk' # Idle
  <2>1. Proceed(wk)
    BY <1>2 DEF Return
  <2> QED BY <1>2, <2>1, PassOn, KnownOnward DEF NextStep, Onward
<1> QED BY <1>1, <1>2

LEMMA KnownMissed ==
    ASSUME TypeInv, wk # Idle, Missed
    PROVE  Known' /\ wk' \in Works \cup {Idle}
<1>1. CASE wk' = Idle
  BY <1>1, KnownIdle
<1>2. CASE wk' # Idle
  BY <1>2, MissedOn, KnownOnward DEF NextStep, Onward
<1> QED BY <1>1, <1>2

LEMMA KnownFound ==
    ASSUME TypeInv, wk # Idle, NEW r \in Ref, Exists(r), NEW how \in {"found", "adopted", "recovered"},
           how = "recovered" \/ wk.mr.ext = r, Found(r, how)
    PROVE  Known' /\ wk' \in Works \cup {Idle}
<1>1. CASE wk' = Idle
  BY <1>1, KnownIdle
<1>2. CASE wk' # Idle
  BY <1>2, FoundOn, KnownOnward DEF Onward
<1> QED BY <1>1, <1>2

-----------------------------------------------------------------------------
LEMMA SearchTypes ==
    ASSUME TypeInv, Guard \/ ByRef \/ ByUID \/ ByKey \/ RefuseKey
    PROVE  Known' /\ wk' \in Works \cup {Idle}
<1>1. CASE Guard
  <2>1. wk # Idle
    BY <1>1, AtDue DEF Guard
  <2>2. CASE Proceed(wk)
    BY <2>1, <2>2, KnownPassed
  <2>3. CASE Go(wk, Searched(wk))
    <3>1. wk \in Works /\ wk.todo \in Seq(Steps) /\ wk.todo # <<>>
      BY <2>1, UnderWay
    <3>2. /\ Searched(wk) \in Seq(Steps) /\ Suffix(Searched(wk), wk.todo)
          /\ \A y : y \notin Lookups /\ Among(y, Tail(wk.todo)) => Among(y, Searched(wk))
      BY <3>1, SearchedSuffix
    <3> HIDE DEF Searched
    <3>3. Left(wk, Searched(wk))
      BY <2>3, <3>1, <3>2, GoLeaves
    <3>4. CASE wk' = Idle
      BY <3>4, KnownIdle
    <3>5. CASE wk' # Idle
      <4>1. Onward
        BY <2>1, <3>2, <3>3, <3>5, SuffixOnward
      <4> QED BY <3>3, <3>5, <4>1, KnownOnward DEF Left
    <3> QED BY <3>4, <3>5
  <2> QED BY <1>1, <2>2, <2>3 DEF Guard
<1>2. CASE ByRef
  <2>1. wk # Idle /\ wk.mr.ext \in Ref \cup {NoRef}
    BY <1>2, AtDue, UnderWay DEF ByRef, MRs
  <2>2. CASE Missed \/ Return
    BY <2>1, <2>2, KnownMissed, KnownPassed
  <2>3. CASE ~(Missed \/ Return)
    <3>1. wk.mr.ext \in Ref /\ Exists(wk.mr.ext)
          /\ \E how \in {"found", "adopted"} : Found(wk.mr.ext, how)
      BY <1>2, <2>1, <2>3 DEF ByRef
    <3>2. PICK how \in {"found", "adopted"} : Found(wk.mr.ext, how)
      BY <3>1
    <3> QED BY <2>1, <3>1, <3>2, KnownFound
  <2> QED BY <2>2, <2>3
<1>3. CASE ByUID
  <2>1. wk # Idle
    BY <1>3, AtDue DEF ByUID
  <2>2. CASE Missed \/ Return
    BY <2>1, <2>2, KnownMissed, KnownPassed
  <2>3. CASE \E r \in Mine : Found(r, "recovered")
    <3>1. PICK r \in Ref : Exists(r) /\ Found(r, "recovered")
      BY <2>3 DEF Mine
    <3> QED BY <2>1, <3>1, KnownFound
  <2> QED BY <1>3, <2>2, <2>3 DEF ByUID
<1>4. CASE ByKey
  <2>1. wk # Idle
    BY <1>4, AtDue DEF ByKey
  <2>2. CASE Missed
    BY <2>1, <2>2, KnownMissed
  <2>3. CASE \E r \in Named(wk.mr.key) : Found(r, "recovered")
    <3>1. PICK r \in Ref : Exists(r) /\ Found(r, "recovered")
      BY <2>3 DEF Named
    <3> QED BY <2>1, <3>1, KnownFound
  <2> QED BY <1>4, <2>2, <2>3 DEF ByKey
<1>5. CASE RefuseKey
  BY <1>5, AtDue, KnownMissed, KnownPassed DEF RefuseKey
<1> QED BY <1>1, <1>2, <1>3, <1>4, <1>5

LEMMA DecideTypes ==
    ASSUME TypeInv, Decide
    PROVE  Known' /\ wk' \in Works \cup {Idle}
<1>1. wk # Idle /\ Due("decide") /\ StartupTypeOK /\ wk \in Works
  BY DecideOn, UnderWay DEF TypeInv, TypeOK
<1>2. CASE wk' = Idle
  BY <1>2, KnownIdle
<1>3. ASSUME wk' # Idle, NEW steps, NEW w, Left(w, steps), ~Among("decide", steps),
             Among("put", steps) => w.mr.val \in Val /\ w.mr.ext \in Ref
      PROVE  Known' /\ wk' \in Works \cup {Idle}
  <2>1. wk' \in Works /\ wk'.todo = steps /\ steps # <<>> /\ wk'.mr = w.mr
    BY <1>3 DEF Left
  <2>2. ~Due("decide")' /\ (Due("put")' => Among("put", steps))
    BY <1>3, <2>1 DEF Due
  <2> QED BY <1>3, <2>1, <2>2 DEF Known
<1>4. ASSUME wk.how # "none"
      PROVE  LET w == [wk EXCEPT !.mr = Filled(wk)] IN w.mr.val \in Val /\ w.mr.ext \in Ref
  <2>1. Filled(wk).val \in Val /\ Filled(wk).ext \in Ref
    BY <1>1, <1>4, FilledFields
  <2> HIDE DEF Filled
  <2> QED BY <1>1, <2>1 DEF Works
<1>5. CASE wk' # Idle /\ Left(wk, <<"unfinalize">>)
  BY <1>3, <1>5 DEF Among
<1>6. CASE wk' # Idle /\ Left(wk, CreateProgram(wk.mr.fin))
  <2>1. CreateProgram(wk.mr.fin) \in Seq({"finalizer", "pending"} \cup CreateSteps)
    BY <1>1, CreateProgramSteps
  <2>2. ~Among("decide", CreateProgram(wk.mr.fin)) /\ ~Among("put", CreateProgram(wk.mr.fin))
    BY <2>1, AmongSeq DEF CreateSteps
  <2> QED BY <1>3, <1>6, <2>2
<1>7. CASE wk' # Idle /\ wk.how # "none" /\ Left([wk EXCEPT !.mr = Filled(wk)], S.client.delete)
  <2>1. S.client.delete \in Seq(DeleteSteps)
    BY <1>1, SubjectPrograms
  <2>2. ~Among("decide", S.client.delete) /\ ~Among("put", S.client.delete)
    BY <2>1, AmongSeq DEF DeleteSteps, Lookups
  <2> QED BY <1>3, <1>7, <2>2
<1>8. CASE /\ wk' # Idle /\ wk.how # "none"
           /\ Left([wk EXCEPT !.mr = Filled(wk)],
                   UpdateProgram(wk.mr.fin, Filled(wk) # wk.mr, UpToDate(wk)))
  <2> DEFINE steps == UpdateProgram(wk.mr.fin, Filled(wk) # wk.mr, UpToDate(wk))
             w == [wk EXCEPT !.mr = Filled(wk)]
  <2>1. steps \in Seq({"finalizer", "late"} \cup UpdateSteps)
    BY <1>1, UpdateProgramSteps
  <2>2. ~Among("decide", steps)
    BY <2>1, AmongSeq DEF UpdateSteps
  <2>3. w.mr.val \in Val /\ w.mr.ext \in Ref /\ Left(w, steps)
    BY <1>4, <1>8
  <2> HIDE DEF steps, w
  <2> QED BY <1>3, <1>8, <2>2, <2>3
<1> QED BY <1>2, <1>5, <1>6, <1>7, <1>8, DecideOn

LEMMA PersistTypes ==
    ASSUME TypeInv, wk # Idle, NEW r \in MRs, r.val = wk.mr.val, r.ext = wk.mr.ext, Persist(r)
    PROVE  Known' /\ wk' \in Works \cup {Idle} /\ mr' \in MRs \cup {NoMR, Gone}
<1>1. CASE wk' = Idle
  BY <1>1, KnownIdle, PersistOn DEF TypeInv, TypeOK
<1>2. CASE wk' # Idle
  <2>1. /\ mr' = r /\ NextStep /\ wk'.mr = r /\ wk'.at = wk.at /\ wk'.how = wk.how
        /\ wk'.seen = wk.seen
    BY <1>2, PersistOn
  <2>2. /\ wk' \in Works /\ wk'.todo # <<>> /\ (Due("decide")' => Due("decide"))
        /\ (Due("put")' => Due("put")) /\ (Due("post")' => Due("post"))
    BY <2>1 DEF NextStep, Onward
  <2> QED BY <2>1, <2>2 DEF Known, TypeInv
<1> QED BY <1>1, <1>2

LEMMA SaveOn ==
    ASSUME TypeInv, Save
    PROVE  /\ wk # Idle /\ wk.mr \in MRs
           /\ \E r \in MRs : /\ Persist(r) /\ r.val = wk.mr.val /\ r.ext = wk.mr.ext
                           /\ r.phase = wk.mr.phase /\ r.fin = wk.mr.fin /\ r.key = wk.mr.key
<1>1. wk # Idle /\ wk.mr \in MRs
  BY AtDue, UnderWay DEF Save
<1>2. PICK b \in BOOLEAN : Persist([wk.mr EXCEPT !.begun = b])
  BY Zenon DEF Save, At
<1> DEFINE r == [wk.mr EXCEPT !.begun = b]
<1>3. /\ r \in MRs /\ r.val = wk.mr.val /\ r.ext = wk.mr.ext
      /\ r.phase = wk.mr.phase /\ r.fin = wk.mr.fin /\ r.key = wk.mr.key
  BY <1>1 DEF MRs
<1>4. Persist(r)
  BY <1>2
<1> HIDE DEF r
<1> QED BY <1>1, <1>3, <1>4

LEMMA RemoveFinalizerTypes ==
    ASSUME TypeInv, RemoveFinalizer
    PROVE  Known' /\ wk' \in Works \cup {Idle} /\ mr' \in MRs \cup {NoMR, Gone}
<1>1. wk # Idle /\ wk \in Works
  BY AtDue, UnderWay DEF RemoveFinalizer
<1>2. [wk EXCEPT !.mr = wk.mr] = wk
  BY <1>1 DEF Works
<1>3. \/ Return /\ mr' = mr
      \/ Proceed(wk) /\ mr' = Gone
  BY <1>2 DEF RemoveFinalizer, Persist
<1> QED BY <1>1, <1>3, KnownPassed DEF TypeInv, TypeOK

LEMMA PostTypes ==
    ASSUME TypeInv, Post
    PROVE  /\ Known' /\ wk' \in Works \cup {Idle} /\ grid' \in Grids
           /\ mr' \in MRs \cup {NoMR, Gone}
<1> DEFINE r == [key |-> wk.mr.key, turn |-> 0]
           w == [wk EXCEPT !.mr.ext = r]
<1>1. wk # Idle /\ wk \in Works /\ wk.mr \in MRs
  BY AtDue, UnderWay DEF Post
<1>2. r \in Ref
  BY <1>1 DEF MRs, Ref
<1>3. CASE GiveUp /\ UNCHANGED grid
  BY <1>3, GiveUpOn, KnownIdle DEF TypeInv, TypeOK
<1>4. CASE ~(GiveUp /\ UNCHANGED grid)
  <2>0. mr' \in MRs \cup {NoMR, Gone}
    BY <1>4 DEF Post, TypeInv, TypeOK
  <2>1. PICK v \in IF wk.mr.val = Unset THEN Val ELSE {wk.mr.val} :
          grid' = [grid EXCEPT ![r] = [val |-> v, own |-> "mine"]]
    BY <1>4 DEF Post
  <2>2. v \in Val
    BY <1>1, <2>1 DEF MRs
  <2>3. grid' \in Grids
    <3>1. [val |-> v, own |-> "mine"] \in Object
      BY <2>2 DEF Object
    <3>2. grid \in [Ref -> Object \cup {Absent}]
      BY DEF TypeInv, TypeOK, Grids
    <3> HIDE DEF r
    <3> QED BY <1>2, <2>1, <3>1, <3>2 DEF Grids
  <2>4. Proceed(w)
    BY <1>4 DEF Post
  <2>5. /\ w \in Works /\ w.todo = wk.todo /\ w.mr = [wk.mr EXCEPT !.ext = r] /\ w.mr.ext = r
        /\ w.mr.val = wk.mr.val /\ w.at = wk.at /\ w.how = wk.how /\ w.seen = wk.seen
    <3> HIDE DEF r
    <3> QED BY <1>1, <1>2 DEF Works, MRs
  <2>6. CASE wk' = Idle
    BY <2>0, <2>3, <2>6, KnownIdle
  <2>7. CASE wk' # Idle
    <3> HIDE DEF w, r
    <3>1. /\ NextStep /\ wk'.mr = w.mr /\ wk'.at = wk.at /\ wk'.how = wk.how /\ wk'.seen = wk.seen
      BY <1>1, <2>4, <2>5, <2>7, ProceedOn
    <3>2. wk' \in Works /\ wk'.todo # <<>> /\ (Due("put")' => Due("put"))
      BY <3>1 DEF NextStep, Onward
    <3>3. ~Due("decide")'
      BY <3>1, AtDue DEF NextStep, Onward, Post, Known, TypeInv
    <3> QED BY <1>2, <2>0, <2>3, <2>5, <3>1, <3>2, <3>3 DEF Known, TypeInv
  <2> QED BY <2>6, <2>7
<1> QED BY <1>3, <1>4

\* A PUT moves the object to another reference, or leaves it where it is.
LEMMA PutMoves ==
    ASSUME TypeInv, Put
    PROVE  /\ wk # Idle /\ wk.mr.ext \in Ref /\ wk.mr.key \in Key /\ wk.mr.val \in Val
           /\ ~Due("decide") /\ Due("put") /\ Head(wk.todo) = "put"
           /\ \/ wk' = Idle /\ grid' = grid
              \/ \E q \in Moves(wk.mr.ext) :
                   /\ Accepts /\ Exists(wk.mr.ext)
                   /\ Renamable => Named(wk.mr.key) \subseteq {wk.mr.ext}
                   /\ q \in Ref
                   /\ grid' = [grid EXCEPT ![wk.mr.ext] = Absent,
                                 ![q] = [val |-> wk.mr.val,
                                         own |-> IF Stamped THEN "mine" ELSE grid[wk.mr.ext].own]]
                   /\ \/ wk' = Idle
                      \/ /\ NextStep /\ wk'.mr = [wk.mr EXCEPT !.ext = q]
                         /\ wk'.fresh = wk.fresh /\ wk'.at = wk.at /\ wk'.how = wk.how
                         /\ wk'.seen = wk.seen
<1>1. wk # Idle /\ wk \in Works /\ wk.mr \in MRs /\ Due("put") /\ Head(wk.todo) = "put"
  BY AtDue, UnderWay DEF Put
<1>2. wk.mr.ext \in Ref /\ wk.mr.val \in Val /\ wk.mr.key \in Key /\ ~Due("decide")
  BY <1>1 DEF TypeInv, Known, MRs
<1>3. CASE Return /\ UNCHANGED grid
  BY <1>1, <1>2, <1>3 DEF Return
<1>4. CASE ~(Return /\ UNCHANGED grid)
  <2>1. /\ Accepts /\ Exists(wk.mr.ext) /\ (Renamable => Named(wk.mr.key) \subseteq {wk.mr.ext})
        /\ \E q \in Moves(wk.mr.ext) :
              /\ grid' = [grid EXCEPT ![wk.mr.ext] = Absent,
                            ![q] = [val |-> wk.mr.val,
                                    own |-> IF Stamped THEN "mine" ELSE grid[wk.mr.ext].own]]
              /\ Return \/ Proceed([wk EXCEPT !.mr.ext = q])
    BY <1>4 DEF Put
  <2>2. PICK q \in Moves(wk.mr.ext) :
              /\ grid' = [grid EXCEPT ![wk.mr.ext] = Absent,
                            ![q] = [val |-> wk.mr.val,
                                    own |-> IF Stamped THEN "mine" ELSE grid[wk.mr.ext].own]]
              /\ Return \/ Proceed([wk EXCEPT !.mr.ext = q])
    BY <2>1
  <2>3. q \in Ref
    BY <1>2, <2>2 DEF Moves, Ref
  <2>4. CASE wk' = Idle
    BY <1>1, <1>2, <2>1, <2>2, <2>3, <2>4
  <2>5. CASE wk' # Idle
    <3> DEFINE w == [wk EXCEPT !.mr.ext = q]
    <3>1. Proceed(w)
      BY <2>2, <2>5 DEF Return
    <3>2. /\ w \in Works /\ w.todo = wk.todo /\ w.mr = [wk.mr EXCEPT !.ext = q]
          /\ w.fresh = wk.fresh /\ w.at = wk.at /\ w.how = wk.how /\ w.seen = wk.seen
      BY <1>1, <2>3 DEF Works, MRs
    <3> HIDE DEF w
    <3>3. /\ NextStep /\ wk'.mr = [wk.mr EXCEPT !.ext = q]
          /\ wk'.fresh = wk.fresh /\ wk'.at = wk.at /\ wk'.how = wk.how /\ wk'.seen = wk.seen
      BY <1>1, <2>5, <3>1, <3>2, ProceedOn
    <3> QED BY <1>1, <1>2, <2>1, <2>2, <2>3, <3>3
  <2> QED BY <2>4, <2>5
<1> QED BY <1>3, <1>4

LEMMA PutTypes ==
    ASSUME TypeInv, Put
    PROVE  Known' /\ wk' \in Works \cup {Idle} /\ grid' \in Grids
<1>1. CASE wk' = Idle /\ grid' = grid
  BY <1>1, KnownIdle DEF TypeInv, TypeOK
<1>2. CASE ~(wk' = Idle /\ grid' = grid)
  <2>1. PICK q \in Ref :
                   /\ Exists(wk.mr.ext)
                   /\ grid' = [grid EXCEPT ![wk.mr.ext] = Absent,
                                 ![q] = [val |-> wk.mr.val,
                                         own |-> IF Stamped THEN "mine" ELSE grid[wk.mr.ext].own]]
                   /\ \/ wk' = Idle
                      \/ /\ NextStep /\ wk'.mr = [wk.mr EXCEPT !.ext = q]
                         /\ wk'.at = wk.at /\ wk'.how = wk.how /\ wk'.seen = wk.seen
    BY <1>2, PutMoves
  <2>2. wk # Idle /\ wk.mr.ext \in Ref /\ wk.mr.val \in Val /\ ~Due("decide") /\ wk.mr \in MRs
    BY PutMoves, UnderWay
  <2>3. grid' \in Grids
    <3>1. grid \in [Ref -> Object \cup {Absent}] /\ grid[wk.mr.ext] \in Object
      BY <2>1, <2>2 DEF TypeInv, TypeOK, Grids, Exists
    <3> DEFINE o == [val |-> wk.mr.val, own |-> IF Stamped THEN "mine" ELSE grid[wk.mr.ext].own]
    <3>2. o \in Object
      BY <2>2, <3>1 DEF Object
    <3>3. grid' = [grid EXCEPT ![wk.mr.ext] = Absent, ![q] = o]
      BY <2>1
    <3> HIDE DEF o
    <3> QED BY <2>2, <3>1, <3>2, <3>3 DEF Grids
  <2>4. CASE wk' = Idle
    BY <2>3, <2>4, KnownIdle
  <2>5. CASE wk' # Idle
    <3>1. /\ NextStep /\ wk'.mr.val \in Val /\ wk'.mr.ext \in Ref
      BY <2>1, <2>2, <2>5 DEF MRs
    <3>2. ~Due("decide")' /\ wk' \in Works /\ wk'.todo # <<>>
      BY <2>2, <3>1 DEF NextStep, Onward
    <3> QED BY <2>3, <3>1, <3>2 DEF Known
  <2> QED BY <2>4, <2>5
<1> QED BY <1>1, <1>2

-----------------------------------------------------------------------------
LEMMA BeginTypes ==
    ASSUME TypeInv, Begin
    PROVE  /\ wk' # Idle /\ wk' \in Works /\ wk'.todo = BeginProgram /\ wk'.mr = mr /\ mr \in MRs
           /\ wk'.fresh /\ wk'.how = "none" /\ wk'.at = NoRef /\ Managed /\ Known'
<1>1. BeginProgram \in Seq(Steps) /\ Among("decide", BeginProgram)
  BY BeginSteps DEF TypeInv, TypeOK
<1>2. Managed /\ mr \in MRs
  BY DEF Begin, Managed, TypeInv, TypeOK, NoMR, Gone
<1>3. wk' = [todo |-> BeginProgram, mr |-> mr, fresh |-> TRUE, at |-> NoRef, how |-> "none",
             seen |-> Absent]
  BY DEF Begin, BeginProgram
<1>4. BeginProgram # <<>>
  BY <1>1 DEF Among
<1> HIDE DEF BeginProgram
<1>5. /\ wk' \in Works /\ wk'.todo = BeginProgram /\ wk'.mr = mr /\ wk'.fresh /\ wk'.how = "none"
      /\ wk'.at = NoRef
  BY <1>1, <1>2, <1>3 DEF Works
<1>6. wk' # Idle
  BY <1>4, <1>5 DEF Idle
<1>7. ~Due("put")' /\ ~Due("post")'
  <2>1. BeginProgram \in Seq(ConnectSteps \cup ObserveSteps \cup {"decide"})
    BY BeginSteps DEF TypeInv, TypeOK
  <2>2. ~Among("put", BeginProgram) /\ ~Among("post", BeginProgram)
    BY <2>1, AmongSeq DEF ConnectSteps, ObserveSteps, Lookups
  <2> QED BY <1>5, <2>2 DEF Due
<1>8. Known'
  BY <1>4, <1>5, <1>6, <1>7 DEF Known
<1> QED BY <1>2, <1>5, <1>6, <1>8

\* Types, one step per group of actions.
LEMMA TypeNext == TypeInv /\ [Next]_vars => TypeInv'
<1> SUFFICES ASSUME TypeInv, [Next]_vars PROVE TypeInv'
  OBVIOUS
<1>0. /\ TypeOK /\ grid \in Grids /\ def \in BOOLEAN /\ edits \in 0..MaxEdits
      /\ config \in [phase : {"live", "deleting", "gone"}, used : BOOLEAN]
      /\ mr \in MRs \cup {NoMR, Gone}
  BY DEF TypeInv, TypeOK
<1>1. StartupTypeOK'
  BY <1>0, StartupStep
<1>2. SUFFICES /\ grid' \in Grids /\ def' \in BOOLEAN /\ edits' \in 0..MaxEdits
               /\ config' \in [phase : {"live", "deleting", "gone"}, used : BOOLEAN]
               /\ mr' \in MRs \cup {NoMR, Gone}
               /\ Known' /\ wk' \in Works \cup {Idle}
  BY <1>1, <1>2 DEF TypeInv, TypeOK
<1>3. CASE UNCHANGED life
  BY <1>0, <1>3, KnownSame DEF life
<1>4. CASE NewMR
  <2>1. \E x \in Key, v \in SpecVal, e \in {NoRef} \cup {r \in Ref : Exists(r)}, b \in BOOLEAN :
           mr' = [phase |-> "live", fin |-> FALSE, begun |-> FALSE,
                  ext |-> e, key |-> x, val |-> v, bad |-> b]
    BY <1>4 DEF NewMR
  <2>2. mr' \in MRs
    BY <2>1, LifecycleConstants DEF MRs
  <2> QED BY <1>0, <1>4, <2>2, KnownSame DEF NewMR
<1>5. CASE EditMR
  <2>1. mr \in MRs
    BY <1>0, <1>5 DEF EditMR, NoMR, Gone
  <2>2. \E x \in Key, v \in Val \cup {mr.val} : mr' = [mr EXCEPT !.key = x, !.val = v, !.bad = FALSE]
    BY <1>5, <2>1 DEF EditMR, MRs
  <2>3. mr' \in MRs
    BY <2>1, <2>2 DEF MRs
  <2>4. edits' \in 0..MaxEdits
    BY <1>0, <1>5, LifecycleConstants DEF EditMR
  <2> QED BY <1>0, <1>5, <2>3, <2>4, KnownOutdated DEF EditMR
<1>6. CASE DeleteMR
  <2>1. mr \in MRs
    BY <1>0, <1>6 DEF DeleteMR, NoMR, Gone
  <2>2. mr' \in MRs \cup {NoMR, Gone}
    BY <1>6, <2>1 DEF DeleteMR, MRs
  <2>3. config' \in [phase : {"live", "deleting", "gone"}, used : BOOLEAN]
    BY <1>0, <1>6 DEF DeleteMR
  <2> QED BY <1>0, <1>6, <2>2, <2>3, KnownOutdated DEF DeleteMR
<1>7. CASE DeleteConfig \/ ReleaseConfig
  <2>1. config' \in [phase : {"live", "deleting", "gone"}, used : BOOLEAN]
    BY <1>0, <1>7 DEF DeleteConfig, ReleaseConfig
  <2> QED BY <1>0, <1>7, <2>1, KnownSame DEF DeleteConfig, ReleaseConfig
<1>8. CASE Admin
  <2>1. grid \in [Ref -> Object \cup {Absent}]
    BY <1>0 DEF Grids
  <2>2. CASE \E r \in Ref : grid' = [grid EXCEPT ![r] = Absent]
    BY <1>0, <1>8, <2>1, <2>2, KnownSame DEF Admin, Grids
  <2>3. CASE \E r \in Ref, v \in Val : Exists(r) /\ grid' = [grid EXCEPT ![r].val = v]
    <3>1. PICK r \in Ref, v \in Val : Exists(r) /\ grid' = [grid EXCEPT ![r].val = v]
      BY <2>3
    <3>2. [grid[r] EXCEPT !.val = v] \in Object
      BY <2>1, <3>1 DEF Exists, Object
    <3>3. grid' = [grid EXCEPT ![r] = [grid[r] EXCEPT !.val = v]]
      BY <3>1
    <3>4. grid' \in Grids
      BY <2>1, <3>2, <3>3 DEF Grids
    <3> QED BY <1>0, <1>8, <3>4, KnownSame DEF Admin
  <2>4. CASE \E r \in Ref, x \in Key \ {Reserved} :
               grid' = [grid EXCEPT ![r] = Absent, ![[r EXCEPT !.key = x]] = grid[r]]
    <3>1. PICK r \in Ref, x \in Key \ {Reserved} :
               grid' = [grid EXCEPT ![r] = Absent, ![[r EXCEPT !.key = x]] = grid[r]]
      BY <2>4
    <3>2. [r EXCEPT !.key = x] \in Ref
      BY <3>1 DEF Ref
    <3>3. grid' \in Grids
      BY <2>1, <3>1, <3>2 DEF Grids
    <3> QED BY <1>0, <1>8, <3>3, KnownSame DEF Admin
  <2>5. CASE UNCHANGED grid /\ def' = FALSE
    BY <1>0, <1>8, <2>5, KnownSame DEF Admin
  <2> QED BY <1>8, <2>2, <2>3, <2>4, <2>5 DEF Admin
<1>9. CASE Begin
  BY <1>0, <1>9, BeginTypes DEF Begin
<1>10. CASE Track
  <2>1. config' \in [phase : {"live", "deleting", "gone"}, used : BOOLEAN]
    <3>1. Managed \in BOOLEAN
      BY DEF Managed
    <3>2. PICK u \in BOOLEAN : config' = [config EXCEPT !.used = u]
      BY <1>10, <3>1, Zenon DEF Track
    <3> QED BY <1>0, <3>2
  <2>2. wk # Idle
    BY <1>10, AtDue DEF Track
  <2> QED BY <1>0, <1>10, <2>1, <2>2, KnownPassed DEF Track
<1>11. CASE GetConfig
  <2>1. wk # Idle
    BY <1>11, AtDue DEF GetConfig
  <2> QED BY <1>0, <1>11, <2>1, KnownPassed DEF GetConfig
<1>12. CASE Guard \/ ByRef \/ ByUID \/ ByKey \/ RefuseKey
  BY <1>0, <1>12, SearchTypes DEF Guard, ByRef, ByUID, ByKey, RefuseKey
<1>13. CASE Decide
  BY <1>0, <1>13, DecideTypes DEF Decide
<1>14. CASE AddFinalizer
  <2>1. wk # Idle /\ wk.mr \in MRs
    BY <1>14, AtDue, UnderWay DEF AddFinalizer
  <2> DEFINE r == [wk.mr EXCEPT !.fin = TRUE]
  <2>2. r \in MRs /\ r.val = wk.mr.val /\ r.ext = wk.mr.ext
    BY <2>1 DEF MRs
  <2>3. Persist(r)
    BY <1>14 DEF AddFinalizer
  <2> HIDE DEF r
  <2> QED BY <1>0, <1>14, <2>1, <2>2, <2>3, PersistTypes DEF AddFinalizer
<1>15. CASE Save
  <2>1. PICK r \in MRs : Persist(r) /\ r.val = wk.mr.val /\ r.ext = wk.mr.ext
    BY <1>15, SaveOn
  <2> QED BY <1>0, <1>15, <2>1, PersistTypes, AtDue DEF Save
<1>16. CASE RemoveFinalizer
  <2>1. wk # Idle /\ wk \in Works
    BY <1>16, AtDue, UnderWay DEF RemoveFinalizer
  <2>2. config' \in [phase : {"live", "deleting", "gone"}, used : BOOLEAN]
    BY <1>0, <1>16, <2>1 DEF RemoveFinalizer, Works
  <2> QED BY <1>0, <1>16, <2>2, RemoveFinalizerTypes DEF RemoveFinalizer
<1>17. CASE Name
  <2>1. wk # Idle /\ wk.mr \in MRs
    BY <1>17, AtDue, UnderWay DEF Name
  <2>2. mr' \in MRs \cup {NoMR, Gone}
    <3>1. CASE Managed
      <4>1. mr \in MRs
        BY <1>0, <3>1 DEF Managed, NoMR, Gone
      <4>2. PICK b \in BOOLEAN : mr' = [mr EXCEPT !.ext = wk.mr.ext, !.begun = b]
        <5>1. (mr.begun /\ At("refresh")) \in BOOLEAN
          OBVIOUS
        <5>2. mr' = [mr EXCEPT !.ext = wk.mr.ext, !.begun = mr.begun /\ At("refresh")]
          BY <1>17, <3>1, <4>1, Zenon DEF Name, MRs
        <5> QED BY <5>1, <5>2, Zenon
      <4> QED BY <2>1, <4>1, <4>2 DEF MRs
    <3>2. CASE ~Managed
      BY <1>0, <1>17, <3>2 DEF Name
    <3> QED BY <3>1, <3>2
  <2> QED BY <1>0, <1>17, <2>1, <2>2, KnownPassed DEF Name
<1>18. CASE Probe
  <2>1. wk # Idle
    BY <1>18, AtDue DEF Probe
  <2> QED BY <1>0, <1>18, <2>1, KnownPassed DEF Probe
<1>19. CASE Check
  <2>1. wk # Idle
    BY <1>19, AtDue DEF Check
  <2>2. CASE GiveUp
    BY <1>0, <1>19, <2>2, GiveUpOn, KnownIdle DEF Check
  <2>3. CASE ~GiveUp
    BY <1>0, <1>19, <2>1, <2>3, KnownPassed DEF Check
  <2> QED BY <2>2, <2>3
<1>20. CASE Post
  BY <1>0, <1>20, PostTypes DEF Post
<1>21. CASE Put
  BY <1>0, <1>21, PutTypes DEF Put
<1>22. CASE Delete
  <2>1. wk # Idle /\ wk.at \in Ref \cup {NoRef}
    BY <1>22, AtDue, UnderWay DEF Delete
  <2>2. grid' \in Grids
    BY <1>0, <1>22, <2>1 DEF Delete, Grids
  <2> QED BY <1>0, <1>22, <2>1, <2>2, KnownPassed DEF Delete
<1>23. CASE Fail
  <2>1. wk' = Idle /\ mr' \in MRs \cup {NoMR, Gone}
    BY <1>0, <1>23, GiveUpOn DEF Fail, Return
  <2> QED BY <1>0, <1>23, <2>1, KnownIdle DEF Fail
<1>24. CASE Crash /\ wk' = Idle /\ UNCHANGED <<grid, def, config, mr, edits>>
  BY <1>0, <1>24, KnownIdle
<1>25. CASE Unblock
  BY <1>0, <1>25, UnblockOn, KnownOutdated DEF Unblock
<1> QED
  BY <1>3, <1>4, <1>5, <1>6, <1>7, <1>8, <1>9, <1>10, <1>11, <1>12, <1>13, <1>14, <1>15, <1>16,
     <1>25, <1>17, <1>18, <1>19, <1>20, <1>21, <1>22, <1>23, <1>24
     DEF Next, People, Reconcile, vars, life

LEMMA TypeInit == Init => TypeInv
<1> SUFFICES ASSUME Init PROVE TypeInv
  OBVIOUS
<1>1. StartupTypeOK
  BY StartupConstants DEF Init, StartupInit, StartupTypeOK, Down
<1>2. subject.kind \in DOMAIN Kinds
  BY <1>1, StartupConstants DEF StartupTypeOK
<1>3. grid \in Grids
  BY <1>2, LifecycleConstants DEF Init
<1>4. Known
  BY NothingDue DEF Init, Known
<1>5. config \in [phase : {"live", "deleting", "gone"}, used : BOOLEAN]
  BY DEF Init
<1>6. def \in BOOLEAN /\ mr \in MRs \cup {NoMR, Gone} /\ wk \in Works \cup {Idle}
  BY Zenon DEF Init
<1>7. edits \in 0..MaxEdits
  BY LifecycleConstants DEF Init
<1> QED BY <1>1, <1>3, <1>4, <1>5, <1>6, <1>7, Zenon DEF TypeInv, TypeOK

LEMMA TypesHold == Spec => []TypeInv
  BY TypeInit, TypeNext, PTL DEF Spec

\* Every variable keeps its type, whatever the tables say.  A value that is written has
\* been filled in before.
THEOREM TypeCorrect == Spec => []TypeOK
<1>1. TypeInv => TypeOK
  BY DEF TypeInv
<1> QED BY <1>1, TypesHold, PTL

-----------------------------------------------------------------------------
(***************************************************************************)
(* The order of steps.                                                     *)
(***************************************************************************)
LEMMA NoneAfterAbsent ==
    ASSUME NEW X, NEW s \in Seq(X), NEW A, NEW B, X \cap A = {} \/ X \cap B = {}
    PROVE  NoneAfter(A, B, s)
<1>1. \A i \in DOMAIN s : s[i] \in X
  OBVIOUS
<1> QED BY <1>1 DEF NoneAfter

LEMMA Single ==
    ASSUME NEW x
    PROVE  /\ \A A, B : NoneAfter(A, B, <<x>>)
           /\ \A y : Among(y, <<x>>) <=> y = x
           /\ \A X : x \in X => <<x>> \in Seq(X)
  BY DEF NoneAfter, Among

LEMMA OptionalSingle ==
    ASSUME NEW b, NEW x, NEW A, NEW B
    PROVE  NoneAfter(A, B, Optional(b, x))
<1>1. CASE b
  BY <1>1, Single DEF Optional
<1>2. CASE ~b
  BY <1>2 DEF Optional, NoneAfter
<1> QED BY <1>1, <1>2

\* What may not come later does not come in what is appended, or nothing before that
\* forbids it.
LEMMA ConcatNoneAfter ==
    ASSUME NEW X, NEW s \in Seq(X), NEW t \in Seq(X), NEW A, NEW B,
           NoneAfter(A, B, s), NoneAfter(A, B, t),
           (\A x \in A : ~Among(x, s)) \/ (\A x \in B : ~Among(x, t))
    PROVE  NoneAfter(A, B, s \o t)
<1>1. s \o t \in Seq(X) /\ Len(s \o t) = Len(s) + Len(t) /\ Len(s) \in Nat /\ Len(t) \in Nat
  OBVIOUS
<1> SUFFICES ASSUME NEW i \in 1..Len(s \o t), NEW j \in 1..Len(s \o t), i < j,
                    (s \o t)[i] \in A, (s \o t)[j] \in B
             PROVE  FALSE
  BY <1>1 DEF NoneAfter
<1>2. CASE j <= Len(s)
  <2>1. i \in 1..Len(s) /\ j \in 1..Len(s) /\ s[i] \in A /\ s[j] \in B
    BY <1>1, <1>2
  <2> QED BY <2>1 DEF NoneAfter
<1>3. CASE i > Len(s)
  <2>1. /\ i - Len(s) \in 1..Len(t) /\ j - Len(s) \in 1..Len(t) /\ i - Len(s) < j - Len(s)
        /\ t[i - Len(s)] \in A /\ t[j - Len(s)] \in B
    BY <1>1, <1>3
  <2> QED BY <2>1 DEF NoneAfter
<1>4. CASE i <= Len(s) /\ j > Len(s)
  <2>1. i \in 1..Len(s) /\ s[i] \in A /\ j - Len(s) \in 1..Len(t) /\ t[j - Len(s)] \in B
    BY <1>1, <1>4
  <2>2. Among(s[i], s) /\ Among(t[j - Len(s)], t)
    BY <2>1 DEF Among
  <2> QED BY <2>1, <2>2
<1> QED BY <1>1, <1>2, <1>3, <1>4

LEMMA ShapedSuffix ==
    ASSUME NEW s \in Seq(Steps), NEW t \in Seq(Steps), Suffix(t, s), Shaped(s)
    PROVE  Shaped(t)
<1>1. /\ NoneAfter({"decide", "unfinalize"}, Steps, t)
      /\ NoneAfter(Steps, {"finalizer"}, t)
  BY SuffixNoneAfter DEF Shaped
<1>2. \A x : Among(x, t) => Among(x, s)
  BY SuffixAmong
<1>3. \A Y : s \in Seq(Y) => t \in Seq(Y)
  BY SuffixSeq
<1> QED BY <1>1, <1>2, <1>3 DEF Shaped

LEMMA ShapedBegin ==
    ASSUME StartupTypeOK
    PROVE  Shaped(BeginProgram)
<1> DEFINE a == S.connect \o S.client.observe
<1>0. BeginProgram = a \o <<"decide">>
  BY DEF BeginProgram
<1>1. BeginProgram \in Seq(ConnectSteps \cup ObserveSteps \cup {"decide"})
  BY BeginSteps
<1>2. a \in Seq(ConnectSteps \cup ObserveSteps) /\ a \in Seq(Steps) /\ <<"decide">> \in Seq(Steps)
  <2>1. a \in Seq(ConnectSteps \cup ObserveSteps)
    BY SubjectPrograms, Concat
  <2> QED BY <2>1, AllSteps, SeqMonotonic
<1> HIDE DEF a
<1>3. \A x \in {"decide", "unfinalize"} : ~Among(x, a)
  BY <1>2, AmongSeq DEF ConnectSteps, ObserveSteps, Lookups
<1>4. NoneAfter({"decide", "unfinalize"}, Steps, a)
  BY <1>2, NoneAfterAbsent DEF ConnectSteps, ObserveSteps, Lookups
<1>5. NoneAfter({"decide", "unfinalize"}, Steps, <<"decide">>)
  BY Single
<1>6. NoneAfter({"decide", "unfinalize"}, Steps, BeginProgram)
  BY <1>0, <1>2, <1>3, <1>4, <1>5, ConcatNoneAfter, Zenon
<1>7. NoneAfter(Steps, {"finalizer"}, BeginProgram)
  BY <1>1, NoneAfterAbsent DEF ConnectSteps, ObserveSteps, Lookups
<1>8. \A x \in {"finalizer", "post", "put", "delete"} : ~Among(x, BeginProgram)
  BY <1>1, AmongSeq DEF ConnectSteps, ObserveSteps, Lookups
<1> QED BY <1>1, <1>6, <1>7, <1>8 DEF Shaped

LEMMA ShapedCreate ==
    ASSUME StartupTypeOK, NEW fin
    PROVE  Shaped(CreateProgram(fin))
<1> DEFINE X == {"finalizer", "pending"} \cup CreateSteps
           o == Optional(~fin, "finalizer")
           p == CreateProgram(fin)
<1>1. p \in Seq(X) /\ p \in Seq(Steps)
  BY CreateProgramSteps
<1>2. NoneAfter({"decide", "unfinalize"}, Steps, p)
  BY <1>1, NoneAfterAbsent DEF CreateSteps
<1>3. \A x \in {"decide", "put", "delete"} : ~Among(x, p)
  BY <1>1, AmongSeq DEF CreateSteps
<1>4. o \in Seq({"finalizer"}) /\ NoneAfter(Steps, {"finalizer"}, o)
  BY OptionalSteps, OptionalSingle
<1>5. S.client.create \in Seq(CreateSteps) /\ <<"pending">> \in Seq({"pending"})
  BY SubjectPrograms
<1>6. /\ NoneAfter(Steps, {"finalizer"}, <<"pending">>)
      /\ \A x \in {"finalizer"} : ~Among(x, <<"pending">>)
  BY Single
<1>7. /\ NoneAfter(Steps, {"finalizer"}, S.client.create)
      /\ \A x \in {"finalizer"} : ~Among(x, S.client.create)
  <2>1. S.client.create \in Seq(CreateSteps)
    BY <1>5
  <2> QED BY <2>1, NoneAfterAbsent, AmongSeq DEF CreateSteps
<1>8. o \in Seq(Steps) /\ S.client.create \in Seq(Steps) /\ <<"pending">> \in Seq(Steps)
  BY <1>4, <1>5, AllSteps, SeqMonotonic
<1>9. p = o \o <<"pending">> \o S.client.create
  BY DEF CreateProgram
<1> HIDE DEF o, p
<1>10. o \o <<"pending">> \in Seq(Steps)
  BY <1>8
<1>14. NoneAfter(Steps, {"finalizer"}, o \o <<"pending">>)
  BY <1>4, <1>6, <1>8, ConcatNoneAfter, Zenon
<1>11. NoneAfter(Steps, {"finalizer"}, p)
  BY <1>7, <1>8, <1>9, <1>10, <1>14, ConcatNoneAfter, Zenon
<1>12. p \in Seq({"finalizer", "pending", "late"} \cup CreateSteps \cup UpdateSteps)
  BY <1>1, SeqMonotonic
<1>13. Shaped(p)
  BY <1>1, <1>2, <1>3, <1>11, <1>12 DEF Shaped
<1> QED BY <1>13 DEF p

LEMMA ShapedUpdate ==
    ASSUME StartupTypeOK, NEW fin, NEW late, NEW same
    PROVE  Shaped(UpdateProgram(fin, late, same))
<1> DEFINE X == {"finalizer", "late"} \cup UpdateSteps
           o == Optional(~fin, "finalizer")
           l == Optional(late, "late")
           u == IF same THEN <<>> ELSE S.client.update
           p == UpdateProgram(fin, late, same)
<1>1. p \in Seq(X) /\ p \in Seq(Steps)
  BY UpdateProgramSteps
<1>2. NoneAfter({"decide", "unfinalize"}, Steps, p)
  BY <1>1, NoneAfterAbsent DEF UpdateSteps
<1>3. \A x \in {"decide", "post", "delete"} : ~Among(x, p)
  BY <1>1, AmongSeq DEF UpdateSteps
<1>4. o \in Seq({"finalizer"}) /\ NoneAfter(Steps, {"finalizer"}, o)
  BY OptionalSteps, OptionalSingle
<1>5. u \in Seq(UpdateSteps) /\ l \in Seq({"late"})
  BY SubjectPrograms, OptionalSteps
<1> HIDE DEF o, l, u
<1>6. /\ NoneAfter(Steps, {"finalizer"}, o) /\ NoneAfter(Steps, {"finalizer"}, l)
      /\ NoneAfter(Steps, {"finalizer"}, u)
  BY <1>4, <1>5, NoneAfterAbsent DEF UpdateSteps
<1>7. /\ \A x \in {"finalizer"} : ~Among(x, l)
      /\ \A x \in {"finalizer"} : ~Among(x, u)
  BY <1>5, AmongSeq DEF UpdateSteps
<1>8. o \in Seq(Steps) /\ u \in Seq(Steps) /\ l \in Seq(Steps)
  BY <1>4, <1>5, AllSteps, SeqMonotonic
<1>9. p = o \o l \o u
  BY DEF UpdateProgram, o, l, u
<1> HIDE DEF p
<1>10. o \o l \in Seq(Steps)
  BY <1>8
<1>14. NoneAfter(Steps, {"finalizer"}, o \o l)
  BY <1>6, <1>7, <1>8, ConcatNoneAfter, Zenon
<1>11. NoneAfter(Steps, {"finalizer"}, p)
  BY <1>6, <1>7, <1>8, <1>9, <1>10, <1>14, ConcatNoneAfter, Zenon
<1>12. p \in Seq({"finalizer", "pending", "late"} \cup CreateSteps \cup UpdateSteps)
  BY <1>1, SeqMonotonic
<1>13. Shaped(p)
  BY <1>1, <1>2, <1>3, <1>11, <1>12 DEF Shaped
<1> QED BY <1>13 DEF p

LEMMA ShapedDelete ==
    ASSUME StartupTypeOK
    PROVE  Shaped(S.client.delete)
<1>1. S.client.delete \in Seq(DeleteSteps)
  BY SubjectPrograms
<1>2. /\ NoneAfter({"decide", "unfinalize"}, Steps, S.client.delete)
      /\ NoneAfter(Steps, {"finalizer"}, S.client.delete)
  BY <1>1, NoneAfterAbsent DEF DeleteSteps, Lookups
<1>3. \A x \in {"decide", "finalizer", "post", "put"} : ~Among(x, S.client.delete)
  BY <1>1, AmongSeq DEF DeleteSteps, Lookups
<1> QED BY <1>1, <1>2, <1>3 DEF Shaped

LEMMA ShapedRelease == Shaped(<<"unfinalize">>) /\ Shaped(<<>>)
<1>1. \A x \in {"decide", "finalizer", "post", "put", "delete"} : ~Among(x, <<"unfinalize">>)
  BY Single
<1>2. \A A, B : NoneAfter(A, B, <<"unfinalize">>)
  BY Single
<1>3. (\A x : ~Among(x, <<>>)) /\ \A A, B : NoneAfter(A, B, <<>>)
  BY DEF Among, NoneAfter
<1> QED BY <1>1, <1>2, <1>3 DEF Shaped

-----------------------------------------------------------------------------
(***************************************************************************)
(* What each action does to the reconcile under way, if that goes on.      *)
(***************************************************************************)
Copied == wk'.mr = wk.mr /\ wk'.fresh = wk.fresh
Kept3  == wk'.at = wk.at /\ wk'.how = wk.how /\ wk'.seen = wk.seen

LEMMA GuardOn ==
    ASSUME TypeInv, Guard, wk' # Idle
    PROVE  wk # Idle /\ Head(wk.todo) = "guard" /\ Due("guard") /\ Onward /\ Copied /\ Kept3
<1>1. wk # Idle /\ Head(wk.todo) = "guard" /\ Due("guard")
  BY AtDue DEF Guard
<1>2. CASE Proceed(wk)
  BY <1>1, <1>2, PassOn DEF NextStep, Copied, Kept3
<1>3. CASE Go(wk, Searched(wk))
  <2>1. wk \in Works /\ wk.todo \in Seq(Steps) /\ wk.todo # <<>>
    BY <1>1, UnderWay
  <2>2. /\ Searched(wk) \in Seq(Steps) /\ Suffix(Searched(wk), wk.todo)
        /\ \A y : y \notin Lookups /\ Among(y, Tail(wk.todo)) => Among(y, Searched(wk))
    BY <2>1, SearchedSuffix
  <2> HIDE DEF Searched
  <2>3. Left(wk, Searched(wk))
    BY <1>3, <2>1, <2>2, GoLeaves
  <2>4. Onward
    BY <1>1, <2>2, <2>3, SuffixOnward
  <2> QED BY <1>1, <2>3, <2>4 DEF Left, Copied, Kept3
<1> QED BY <1>2, <1>3 DEF Guard

LEMMA ByRefOn ==
    ASSUME TypeInv, ByRef, wk' # Idle
    PROVE  /\ wk # Idle /\ Head(wk.todo) = "ref" /\ Due("ref") /\ Onward /\ Copied
           /\ \/ /\ NextStep /\ wk'.at = NoRef /\ wk'.how = "none"
                 /\ wk.mr.ext = NoRef \/ ~Exists(wk.mr.ext)
              \/ /\ wk.mr.ext \in Ref /\ Exists(wk.mr.ext)
                 /\ wk'.at = wk.mr.ext /\ wk'.todo = Searched(wk)
                 /\ \/ wk'.how = "found" /\ (Stamped => grid[wk.mr.ext].own = "mine")
                    \/ wk'.how = "adopted" /\ grid[wk.mr.ext].own = "nobody" /\ ~Releasing
<1>1. wk # Idle /\ Head(wk.todo) = "ref" /\ Due("ref") /\ wk.mr.ext \in Ref \cup {NoRef}
  BY AtDue, UnderWay DEF ByRef, MRs
<1>2. ~Return
  BY DEF Return
<1>3. CASE Missed
  <2>1. wk.mr.ext = NoRef \/ ~Exists(wk.mr.ext) \/ ~Missed \/ wk.mr.ext \in Ref
    BY <1>1
  <2>2. CASE wk.mr.ext = NoRef \/ ~Exists(wk.mr.ext)
    BY <1>1, <1>3, <2>2, MissedOn DEF NextStep, Copied
  <2>3. CASE wk.mr.ext \in Ref /\ Exists(wk.mr.ext) /\ wk.mr.ext # NoRef
    <3>1. \/ Found(wk.mr.ext, "found") /\ (Stamped => grid[wk.mr.ext].own = "mine")
          \/ Found(wk.mr.ext, "adopted") /\ grid[wk.mr.ext].own = "nobody" /\ ~Releasing
      BY <1>2, <2>3 DEF ByRef
    <3> QED BY <1>1, <2>3, <3>1, FoundOn DEF Copied
  <2> QED BY <1>1, <2>2, <2>3
<1>4. CASE ~Missed
  <2>1. /\ wk.mr.ext \in Ref /\ Exists(wk.mr.ext)
        /\ \/ Found(wk.mr.ext, "found") /\ (Stamped => grid[wk.mr.ext].own = "mine")
           \/ Found(wk.mr.ext, "adopted") /\ grid[wk.mr.ext].own = "nobody" /\ ~Releasing
    BY <1>1, <1>2, <1>4 DEF ByRef
  <2> QED BY <1>1, <2>1, FoundOn DEF Copied
<1> QED BY <1>3, <1>4

LEMMA ByUIDOn ==
    ASSUME TypeInv, ByUID, wk' # Idle
    PROVE  /\ wk # Idle /\ Head(wk.todo) = "uid" /\ Due("uid") /\ Onward /\ Copied
           /\ \/ NextStep /\ wk'.at = NoRef /\ wk'.how = "none" /\ Mine = {}
              \/ wk'.at \in Mine /\ wk'.how = "recovered" /\ wk'.todo = Searched(wk)
<1>1. wk # Idle /\ Head(wk.todo) = "uid" /\ Due("uid")
  BY AtDue DEF ByUID
<1>2. ~Return
  BY DEF Return
<1>3. CASE Mine = {} /\ Missed
  BY <1>1, <1>3, MissedOn DEF NextStep, Copied
<1>4. CASE ~(Mine = {} /\ Missed)
  <2>1. PICK r \in Mine : Found(r, "recovered")
    BY <1>2, <1>4 DEF ByUID
  <2>2. r \in Ref /\ Exists(r)
    BY DEF Mine
  <2> QED BY <1>1, <2>1, <2>2, FoundOn DEF Copied
<1> QED BY <1>3, <1>4

LEMMA ByKeyOn ==
    ASSUME TypeInv, ByKey, wk' # Idle
    PROVE  /\ wk # Idle /\ Head(wk.todo) = "key" /\ Due("key") /\ Onward /\ Copied
           /\ \/ NextStep /\ wk'.at = NoRef /\ wk'.how = "none" /\ Named(wk.mr.key) = {}
              \/ wk'.at \in Named(wk.mr.key) /\ wk'.how = "recovered" /\ wk'.todo = Searched(wk)
<1>1. wk # Idle /\ Head(wk.todo) = "key" /\ Due("key")
  BY AtDue DEF ByKey
<1>3. CASE Named(wk.mr.key) = {} /\ Missed
  BY <1>1, <1>3, MissedOn DEF NextStep, Copied
<1>4. CASE ~(Named(wk.mr.key) = {} /\ Missed)
  <2>1. PICK r \in Named(wk.mr.key) : Found(r, "recovered")
    BY <1>4 DEF ByKey
  <2>2. r \in Ref /\ Exists(r)
    BY DEF Named
  <2> QED BY <1>1, <2>1, <2>2, FoundOn DEF Copied
<1> QED BY <1>3, <1>4

LEMMA RefuseKeyOn ==
    ASSUME TypeInv, RefuseKey, wk' # Idle
    PROVE  /\ wk # Idle /\ Head(wk.todo) = "refuse" /\ NextStep /\ Copied
           /\ wk'.at = NoRef /\ wk'.how = "none"
<1>1. wk # Idle /\ Head(wk.todo) = "refuse"
  BY AtDue DEF RefuseKey
<1>2. Missed
  BY DEF RefuseKey, Return
<1> QED BY <1>1, <1>2, MissedOn DEF Copied

\* The actions that only take the next step.
Passing == Track \/ GetConfig \/ Probe \/ Check \/ Delete

LEMMA PassingOn ==
    ASSUME TypeInv, Passing, wk' # Idle
    PROVE  /\ wk # Idle /\ NextStep /\ Copied /\ Kept3 /\ mr' = mr
           /\ Head(wk.todo) \in {"track", "config", "byKind", "probe", "valid", "reserved",
                                "resolved", "wellKnown", "delete"}
<1>1. wk # Idle /\ Proceed(wk) /\ mr' = mr
  BY DEF Passing, Track, GetConfig, Probe, Check, Delete, GiveUp, Return, At
<1>2. Head(wk.todo) \in {"track", "config", "byKind", "probe", "valid", "reserved",
                         "resolved", "wellKnown", "delete"}
  BY DEF Passing, Track, GetConfig, Probe, Check, Delete, At
<1> QED BY <1>1, <1>2, PassOn DEF Copied, Kept3

LEMMA PostOn ==
    ASSUME TypeInv, Post
    PROVE  /\ wk # Idle /\ Head(wk.todo) = "post" /\ Due("post") /\ wk.mr \in MRs /\ Lifts
           /\ \/ wk' = Idle /\ grid' = grid
              \/ /\ mr' = mr
                 /\ LET r == [key |-> wk.mr.key, turn |-> 0] IN
                    /\ r \in Ref /\ Accepts /\ Named(wk.mr.key) = {}
                    /\ \E v \in Val : grid' = [grid EXCEPT ![r] = [val |-> v, own |-> "mine"]]
                    /\ \/ wk' = Idle
                       \/ /\ NextStep /\ Kept3 /\ wk'.mr = [wk.mr EXCEPT !.ext = r]
                          /\ wk'.fresh = wk.fresh
<1> DEFINE r == [key |-> wk.mr.key, turn |-> 0]
           w == [wk EXCEPT !.mr.ext = r]
<1>1. wk # Idle /\ wk \in Works /\ wk.mr \in MRs /\ Head(wk.todo) = "post" /\ Due("post")
  BY AtDue, UnderWay DEF Post
<1>2. r \in Ref
  BY <1>1 DEF MRs, Ref
<1>3. CASE GiveUp /\ UNCHANGED grid
  BY <1>1, <1>3, GiveUpOn
<1>4. CASE ~(GiveUp /\ UNCHANGED grid)
  <2>1. /\ mr' = mr /\ Accepts /\ Named(wk.mr.key) = {} /\ Proceed(w)
        /\ \E v \in IF wk.mr.val = Unset THEN Val ELSE {wk.mr.val} :
             grid' = [grid EXCEPT ![r] = [val |-> v, own |-> "mine"]]
    BY <1>4 DEF Post
  <2>2. \E v \in Val : grid' = [grid EXCEPT ![r] = [val |-> v, own |-> "mine"]]
    BY <1>1, <2>1 DEF MRs
  <2>3. /\ w \in Works /\ w.todo = wk.todo /\ w.mr = [wk.mr EXCEPT !.ext = r]
        /\ w.fresh = wk.fresh /\ w.at = wk.at /\ w.how = wk.how /\ w.seen = wk.seen
    <3> HIDE DEF r
    <3> QED BY <1>1, <1>2 DEF Works, MRs
  <2> HIDE DEF w, r
  <2>4. \/ wk' = Idle
        \/ /\ NextStep /\ Kept3 /\ wk'.mr = [wk.mr EXCEPT !.ext = r]
           /\ wk'.fresh = wk.fresh
    BY <1>1, <2>1, <2>3, ProceedOn DEF Kept3
  <2>5. Lifts
    BY <2>1 DEF Lifts
  <2> QED BY <1>1, <1>2, <2>1, <2>2, <2>4, <2>5 DEF r
<1> QED BY <1>3, <1>4

-----------------------------------------------------------------------------
(***************************************************************************)
(* The ways in which a reconcile goes on.                                  *)
(***************************************************************************)
\* An edit, a deletion or somebody's consent makes its copy of the resource stale.
Outdated ==
    /\ EditMR \/ DeleteMR \/ Unblock
    /\ wk # Idle /\ wk' # Idle /\ wk' \in Works /\ wk'.todo = wk.todo /\ ~wk'.fresh
    /\ wk'.mr = wk.mr /\ Kept3

\* It takes a step that leaves the resource alone.
Advances ==
    /\ wk # Idle /\ Head(wk.todo) # "finalizer" /\ Onward /\ mr' = mr /\ wk'.fresh = wk.fresh
    /\ wk'.mr.phase = wk.mr.phase /\ wk'.mr.fin = wk.mr.fin /\ wk'.mr.key = wk.mr.key

\* It writes the whole resource.
Persists ==
    /\ wk # Idle /\ NextStep /\ wk.fresh /\ wk'.fresh /\ mr' = wk'.mr /\ wk'.mr \in MRs
    /\ wk'.mr.phase = wk.mr.phase /\ wk'.mr.key = wk.mr.key /\ wk'.mr.ext = wk.mr.ext
    /\ Head(wk.todo) \in {"finalizer", "pending", "late"}
    /\ IF Head(wk.todo) = "finalizer" THEN wk'.mr.fin ELSE wk'.mr.fin = wk.mr.fin
    /\ Kept3

LEMMA LastStep ==
    ASSUME TypeInv, wk # Idle, Shaped(wk.todo), Head(wk.todo) \in {"decide", "unfinalize"}
    PROVE  /\ Tail(wk.todo) = <<>>
           /\ \A x : Due(x) => x = Head(wk.todo)
<1>1. wk.todo \in Seq(Steps) /\ wk.todo # <<>> /\ Tail(wk.todo) \in Seq(Steps)
  BY UnderWay
<1>2. NoneAfter({"decide", "unfinalize"}, Steps, wk.todo)
  BY DEF Shaped
<1>3. \A x \in Steps : ~Among(x, Tail(wk.todo))
  BY <1>1, <1>2, NotLeft
<1>4. Tail(wk.todo) = <<>>
  <2>1. SUFFICES ASSUME Tail(wk.todo) # <<>> PROVE FALSE
    OBVIOUS
  <2>2. Among(Head(Tail(wk.todo)), Tail(wk.todo)) /\ Head(Tail(wk.todo)) \in Steps
    BY <1>1, <2>1, HeadAmong, TailSuffix
  <2> QED BY <1>3, <2>2
<1>5. ASSUME NEW x, Due(x) PROVE x = Head(wk.todo)
  <2>1. x \in Steps
    BY <1>1, <1>5, AmongSeq DEF Due
  <2> QED BY <1>1, <1>3, <1>5, <2>1, HeadOrLeft DEF Due
<1> QED BY <1>4, <1>5

LEMMA OutdateOn ==
    ASSUME TypeInv, EditMR \/ DeleteMR \/ Unblock
    PROVE  wk' = Idle \/ Outdated
<1>1. Outdate
  BY DEF EditMR, DeleteMR, Unblock
<1>2. CASE wk = Idle
  BY <1>1, <1>2 DEF Outdate
<1>3. CASE wk # Idle
  <2>1. wk \in Works /\ wk.todo # <<>>
    BY <1>3, UnderWay
  <2>2. wk' = [wk EXCEPT !.fresh = FALSE]
    BY <1>1, <1>3 DEF Outdate
  <2>3. /\ wk' \in Works /\ wk'.todo = wk.todo /\ wk'.mr = wk.mr /\ wk'.at = wk.at
        /\ wk'.how = wk.how /\ wk'.seen = wk.seen /\ ~wk'.fresh
    BY <2>1, <2>2 DEF Works
  <2>4. wk' # Idle
    BY <2>1, <2>3 DEF Idle
  <2> QED BY <1>3, <2>3, <2>4 DEF Outdated, Kept3
<1> QED BY <1>2, <1>3

LEMMA SavesOn ==
    ASSUME TypeInv, AddFinalizer \/ Save, wk' # Idle
    PROVE  Persists
<1>1. wk # Idle /\ wk.mr \in MRs
  BY AtDue, UnderWay DEF AddFinalizer, Save
<1>2. CASE AddFinalizer
  <2> DEFINE r == [wk.mr EXCEPT !.fin = TRUE]
  <2>1. r \in MRs /\ r.phase = wk.mr.phase /\ r.ext = wk.mr.ext /\ r.key = wk.mr.key /\ r.fin
    BY <1>1 DEF MRs
  <2>2. Persist(r) /\ Head(wk.todo) = "finalizer"
    BY <1>2 DEF AddFinalizer, At
  <2> HIDE DEF r
  <2> QED BY <1>1, <2>1, <2>2, PersistOn DEF Persists, Kept3
<1>3. CASE Save
  <2>1. PICK r \in MRs : /\ Persist(r) /\ r.val = wk.mr.val /\ r.ext = wk.mr.ext
                         /\ r.phase = wk.mr.phase /\ r.fin = wk.mr.fin /\ r.key = wk.mr.key
    BY <1>3, SaveOn
  <2>2. Head(wk.todo) \in {"pending", "late"}
    BY <1>3 DEF Save, At
  <2> QED BY <1>1, <2>1, <2>2, PersistOn DEF Persists, Kept3
<1> QED BY <1>2, <1>3

LEMMA RemoveFinalizerOn ==
    ASSUME TypeInv, Shaped(wk.todo), RemoveFinalizer
    PROVE  wk # Idle /\ Head(wk.todo) = "unfinalize" /\ Due("unfinalize") /\ wk' = Idle
<1>1. wk # Idle /\ wk \in Works /\ Head(wk.todo) = "unfinalize" /\ Due("unfinalize")
  BY AtDue, UnderWay DEF RemoveFinalizer
<1>2. [wk EXCEPT !.mr = wk.mr] = wk
  BY <1>1 DEF Works
<1>3. Return \/ Proceed(wk)
  BY <1>2 DEF RemoveFinalizer, Persist
<1>4. Tail(wk.todo) = <<>>
  BY <1>1, LastStep
<1> QED BY <1>1, <1>3, <1>4 DEF Return, Proceed, Go

LEMMA WorkMoves ==
    ASSUME TypeInv, Shaped(wk.todo), [Next]_vars
    PROVE  \/ wk' = Idle
           \/ wk' = wk /\ (mr' = mr \/ NewMR)
           \/ Begin
           \/ Decide
           \/ Outdated
           \/ Advances
           \/ Persists
<1> SUFFICES ASSUME wk' # Idle
             PROVE  \/ wk' = wk /\ (mr' = mr \/ NewMR)
                    \/ Begin \/ Decide \/ Outdated \/ Advances \/ Persists
  OBVIOUS
<1>1. CASE UNCHANGED life \/ NewMR \/ DeleteConfig \/ ReleaseConfig \/ Admin
  BY <1>1 DEF life, NewMR, DeleteConfig, ReleaseConfig, Admin
<1>2. CASE EditMR \/ DeleteMR \/ Unblock
  BY <1>2, OutdateOn
<1>3. CASE Passing
  BY <1>3, PassingOn DEF Advances, NextStep, Copied
<1>4. CASE Guard
  BY <1>4, GuardOn DEF Advances, Copied, Guard
<1>5. CASE ByRef
  BY <1>5, ByRefOn DEF Advances, Copied, ByRef
<1>6. CASE ByUID
  BY <1>6, ByUIDOn DEF Advances, Copied, ByUID
<1>7. CASE ByKey
  BY <1>7, ByKeyOn DEF Advances, Copied, ByKey
<1>8. CASE RefuseKey
  BY <1>8, RefuseKeyOn DEF Advances, Copied, RefuseKey, NextStep
<1>9. CASE AddFinalizer \/ Save
  BY <1>9, SavesOn
<1>10. CASE RemoveFinalizer
  BY <1>10, RemoveFinalizerOn
<1>11. ~Name /\ ~Fail
  BY DEF Name, Fail, GiveUp, Return
<1>12. CASE Post
  <2>1. /\ wk # Idle /\ wk.mr \in MRs /\ mr' = mr /\ NextStep /\ wk'.fresh = wk.fresh
        /\ Head(wk.todo) = "post"
        /\ wk'.mr = [wk.mr EXCEPT !.ext = [key |-> wk.mr.key, turn |-> 0]]
    BY <1>12, PostOn
  <2> QED BY <2>1 DEF Advances, NextStep, MRs
<1>13. CASE Put
  <2>1. wk # Idle /\ wk.mr \in MRs /\ mr' = mr /\ Head(wk.todo) = "put"
    BY <1>13, PutMoves, UnderWay DEF Put
  <2>2. PICK q : NextStep /\ wk'.mr = [wk.mr EXCEPT !.ext = q] /\ wk'.fresh = wk.fresh
    BY <1>13, PutMoves
  <2> QED BY <2>1, <2>2 DEF Advances, NextStep, MRs
<1> QED
  BY <1>1, <1>2, <1>3, <1>4, <1>5, <1>6, <1>7, <1>8, <1>9, <1>10, <1>11, <1>12, <1>13
     DEF Next, People, Reconcile, vars, life, Passing

LEMMA ShapedNext ==
    ASSUME TypeInv, Shaped(wk.todo), [Next]_vars
    PROVE  Shaped(wk'.todo)
<1>0. StartupTypeOK
  BY DEF TypeInv, TypeOK
<1>1. CASE wk' = Idle
  BY <1>1, ShapedRelease DEF Idle
<1>2. CASE wk' = wk \/ Outdated
  BY <1>2 DEF Outdated
<1>3. CASE Begin
  BY <1>0, <1>3, BeginTypes, ShapedBegin
<1>4. CASE Decide /\ wk' # Idle
  <2>1. \/ wk'.todo = <<"unfinalize">>
        \/ wk'.todo = CreateProgram(wk.mr.fin)
        \/ wk'.todo = S.client.delete
        \/ wk'.todo = UpdateProgram(wk.mr.fin, Filled(wk) # wk.mr, UpToDate(wk))
    BY <1>4, DecideOn DEF Left
  <2> QED BY <1>0, <2>1, ShapedRelease, ShapedCreate, ShapedDelete, ShapedUpdate
<1>5. CASE Advances \/ Persists
  <2>1. wk # Idle /\ wk' \in Works /\ Suffix(wk'.todo, wk.todo)
    BY <1>5 DEF Advances, Persists, NextStep, Onward
  <2>2. wk.todo \in Seq(Steps) /\ wk'.todo \in Seq(Steps)
    BY <2>1, UnderWay DEF Works
  <2> QED BY <2>1, <2>2, ShapedSuffix
<1> QED BY <1>1, <1>2, <1>3, <1>4, <1>5, WorkMoves

LEMMA DecideCopies ==
    ASSUME TypeInv, Decide, wk' # Idle
    PROVE  /\ wk # Idle /\ mr' = mr /\ wk'.fresh = wk.fresh /\ wk'.at = wk.at /\ wk'.how = wk.how
           /\ wk'.mr.phase = wk.mr.phase /\ wk'.mr.fin = wk.mr.fin /\ wk'.mr.key = wk.mr.key
           /\ wk.how = "none" => wk'.mr = wk.mr
           /\ wk.how # "none" => wk'.mr.ext = wk.at
<1>1. wk # Idle /\ Due("decide") /\ mr' = mr /\ wk \in Works
  BY DecideOn, UnderWay DEF Decide
<1>2. CASE wk.how = "none"
  BY <1>1, <1>2, DecideOn DEF Left
<1>3. CASE wk.how # "none"
  <2> DEFINE w == [wk EXCEPT !.mr = Filled(wk)]
  <2>1. /\ w.mr = Filled(wk) /\ w.fresh = wk.fresh /\ w.at = wk.at /\ w.how = wk.how
    BY <1>1 DEF Works
  <2>2. wk'.mr = w.mr /\ wk'.fresh = w.fresh /\ wk'.at = w.at /\ wk'.how = w.how
    BY <1>3, DecideOn DEF Left
  <2> HIDE DEF w, Filled
  <2> QED BY <1>1, <1>3, <2>1, <2>2, FilledFields
<1> QED BY <1>2, <1>3

\* Who changes more of the resource than whether a creation has begun.
LEMMA LiftsElse ==
    ASSUME TypeInv, [Next]_vars, ~NewMR, ~EditMR, ~DeleteMR, ~AddFinalizer, ~Save, ~RemoveFinalizer,
           ~Name
    PROVE  Lifts
<1>1. CASE Unblock
  BY <1>1, UnblockOn
<1>2. CASE Check
  BY <1>2, GiveUpOn DEF Check, Lifts
<1>3. CASE Post
  BY <1>3, PostOn
<1>4. CASE Fail
  BY <1>4, GiveUpOn DEF Fail, Lifts
<1>5. CASE ~Unblock /\ ~Check /\ ~Post /\ ~Fail
  <2>1. mr' = mr
    BY <1>5
       DEF Next, vars, life, People, Reconcile, DeleteConfig, ReleaseConfig, Admin, Begin, Track,
           GetConfig, Guard, ByRef, ByUID, ByKey, RefuseKey, Decide, Probe, Put, Delete
  <2> QED BY <2>1 DEF Lifts
<1> QED BY <1>1, <1>2, <1>3, <1>4, <1>5

\* A write of a copy that is not stale changes neither phase, finalizer, key nor, of the
\* copy itself, the reference.
LEMMA SaveMR ==
    ASSUME TypeInv, Copies, Save, mr' # mr
    PROVE  /\ wk # Idle /\ wk.fresh /\ Managed /\ Managed' /\ mr' \in MRs /\ mr'.phase = mr.phase
           /\ mr'.fin = mr.fin /\ mr'.key = mr.key /\ mr'.ext = wk.mr.ext
<1>1. PICK r \in MRs : /\ Persist(r) /\ r.val = wk.mr.val /\ r.ext = wk.mr.ext
                       /\ r.phase = wk.mr.phase /\ r.fin = wk.mr.fin /\ r.key = wk.mr.key
  BY SaveOn
<1>2. wk # Idle /\ wk.fresh /\ mr' = r
  BY <1>1, SaveOn DEF Persist
<1> QED BY <1>1, <1>2 DEF Copies, Managed

\* A write of the annotations changes the reference alone, and whether a creation has begun.
LEMMA NameMR ==
    ASSUME TypeInv, Name, mr' # mr
    PROVE  /\ wk # Idle /\ wk' = Idle /\ Managed /\ Managed' /\ mr \in MRs /\ mr'.phase = mr.phase
           /\ mr'.fin = mr.fin /\ mr'.key = mr.key /\ mr'.ext = wk.mr.ext
<1>1. wk # Idle /\ wk' = Idle /\ Managed
  BY AtDue DEF Name, Return
<1>2. mr \in MRs
  BY <1>1 DEF TypeInv, TypeOK, Managed, NoMR, Gone
<1>3. \E b : mr' = [mr EXCEPT !.ext = wk.mr.ext, !.begun = b]
  BY <1>1, Zenon DEF Name
<1>4. /\ mr'.phase = mr.phase /\ mr'.fin = mr.fin /\ mr'.key = mr.key /\ mr'.ext = wk.mr.ext
  BY <1>2, <1>3 DEF MRs
<1> QED BY <1>1, <1>2, <1>4 DEF Managed

LEMMA CopiesNext ==
    ASSUME TypeInv, Shaped(wk.todo), Copies, [Next]_vars
    PROVE  Copies'
<1>0. TypeOK /\ mr \in MRs \cup {NoMR, Gone} /\ wk \in Works \cup {Idle} /\ subject' = subject
  BY StartupStep DEF TypeInv, TypeOK
<1>1. Renamable' = Renamable
  BY <1>0 DEF Renamable
<1>2. CASE wk' = Idle
  BY <1>2 DEF Copies
<1>3. CASE wk' # Idle /\ wk' = wk /\ mr' = mr
  BY <1>1, <1>3 DEF Copies, Managed
<1>4. CASE wk' # Idle /\ wk' = wk /\ NewMR
  BY <1>4 DEF Copies, NewMR
<1>5. CASE Begin
  <2>1. wk' # Idle /\ wk'.mr = mr /\ mr' = mr /\ Managed /\ mr \in MRs
    BY <1>5, BeginTypes DEF Begin
  <2>2. mr' # NoMR /\ Managed'
    BY <2>1 DEF Managed, NoMR
  <2>3. mr' = wk'.mr
    BY <2>1
  <2> QED BY <2>2, <2>3, Zenon DEF Copies
<1>6. CASE wk' # Idle /\ Decide
  <2>1. /\ wk # Idle /\ mr' = mr /\ wk'.fresh = wk.fresh
        /\ wk'.mr.phase = wk.mr.phase /\ wk'.mr.fin = wk.mr.fin /\ wk'.mr.key = wk.mr.key
    BY <1>6, DecideCopies
  <2> QED BY <1>1, <2>1 DEF Copies, Managed
<1>7. CASE Outdated
  <2>1. wk # Idle /\ wk' # Idle /\ ~wk'.fresh /\ wk'.mr = wk.mr
    BY <1>7 DEF Outdated
  <2>6. mr.phase \in {"live", "deleting"}
    BY <1>7 DEF Outdated, EditMR, DeleteMR, Unblock, Managed
  <2>2. mr \in MRs
    BY <1>0, <2>6 DEF NoMR, Gone
  <2>7. CASE Unblock
    <3>1. Lifts /\ mr # NoMR
      BY <1>0, <2>2, <2>7, UnblockOn DEF MRs, NoMR
    <3>2. mr' # NoMR /\ mr'.phase = mr.phase /\ mr'.fin = mr.fin /\ mr'.key = mr.key
      BY <3>1 DEF Lifts, MRs, NoMR
    <3> QED BY <1>1, <2>1, <3>2 DEF Copies, Managed
  <2>3. CASE EditMR
    <3>1. \E x \in IF Renamable THEN Key ELSE {mr.key}, v \in Val \cup {mr.val} :
             mr' = [mr EXCEPT !.key = x, !.val = v, !.bad = FALSE]
      BY <2>3 DEF EditMR
    <3>2. /\ mr' # NoMR /\ mr'.phase = mr.phase /\ mr'.fin = mr.fin
          /\ ~Renamable => mr'.key = mr.key
      BY <2>2, <3>1 DEF MRs, NoMR
    <3> QED BY <1>1, <2>1, <3>2 DEF Copies, Managed
  <2>4. CASE DeleteMR /\ mr.fin
    <3>1. mr' = [mr EXCEPT !.phase = "deleting"]
      BY <2>4 DEF DeleteMR
    <3>2. mr' # NoMR /\ mr'.phase = "deleting" /\ mr'.fin = mr.fin /\ mr'.key = mr.key
      BY <2>2, <3>1 DEF MRs, NoMR
    <3>3. Managed
      BY <2>4 DEF DeleteMR, Managed
    <3> QED BY <1>1, <2>1, <3>2, <3>3 DEF Copies, Managed
  <2>5. CASE DeleteMR /\ ~mr.fin
    <3>1. mr' = Gone
      BY <2>5 DEF DeleteMR
    <3>2. mr' # NoMR /\ mr'.phase = "gone"
      BY <3>1 DEF Gone, NoMR
    <3>3. ~wk.mr.fin
      BY <2>1, <2>5 DEF Copies
    <3> QED BY <2>1, <3>2, <3>3 DEF Copies, Managed
  <2> QED BY <1>7, <2>3, <2>4, <2>5, <2>7 DEF Outdated
<1>8. CASE Advances
  BY <1>1, <1>8 DEF Advances, Onward, Copies, Managed
<1>9. CASE Persists
  <2>1. /\ wk # Idle /\ mr' = wk'.mr /\ wk'.mr \in MRs
    BY <1>9 DEF Persists
  <2> QED BY <2>1 DEF Copies, Managed, MRs, NoMR
<1> QED BY <1>2, <1>3, <1>4, <1>5, <1>6, <1>7, <1>8, <1>9, WorkMoves

LEMMA WorkInit == Init => WorkInv
<1> SUFFICES ASSUME Init PROVE WorkInv
  OBVIOUS
<1>1. wk = Idle /\ wk.todo = <<>> /\ mr = NoMR
  BY DEF Init, Idle
<1>2. Copies
  BY <1>1 DEF Copies, Managed, NoMR
<1> QED BY <1>1, <1>2, TypeInit, ShapedRelease DEF WorkInv

LEMMA WorkNext == WorkInv /\ [Next]_vars => WorkInv'
  BY TypeNext, ShapedNext, CopiesNext DEF WorkInv

LEMMA WorkHolds == Spec => []WorkInv
  BY WorkInit, WorkNext, PTL DEF Spec

-----------------------------------------------------------------------------
(***************************************************************************)
(* The ProviderConfig.                                                     *)
(***************************************************************************)
LEMMA FollowedConcat ==
    ASSUME NEW X, NEW s \in Seq(X), NEW t \in Seq(X), Followed(s), ~Among("track", t)
    PROVE  Followed(s \o t)
<1>1. s \o t \in Seq(X) /\ Len(s \o t) = Len(s) + Len(t) /\ Len(s) \in Nat /\ Len(t) \in Nat
  OBVIOUS
<1>4. DOMAIN (s \o t) = 1..Len(s \o t)
  BY <1>1
<1> SUFFICES ASSUME NEW i \in 1..Len(s \o t), (s \o t)[i] = "track"
             PROVE  \E j \in 1..Len(s \o t) : i < j /\ (s \o t)[j] \in {"config", "byKind"}
  BY <1>4, Zenon DEF Followed
<1>2. CASE i <= Len(s)
  <2>1. i \in 1..Len(s) /\ s[i] = "track"
    BY <1>1, <1>2
  <2>2. PICK j \in 1..Len(s) : i < j /\ s[j] \in {"config", "byKind"}
    BY <2>1 DEF Followed
  <2> QED BY <1>1, <2>2
<1>3. CASE i > Len(s)
  <2>1. i - Len(s) \in 1..Len(t) /\ t[i - Len(s)] = "track"
    BY <1>1, <1>3
  <2> QED BY <2>1 DEF Among
<1> QED BY <1>1, <1>2, <1>3

LEMMA FollowedAbsent == ASSUME NEW s, ~Among("track", s) PROVE Followed(s)
  BY DEF Followed, Among

LEMMA FollowedBegin ==
    ASSUME StartupTypeOK, TracksInOrder
    PROVE  Followed(BeginProgram) /\ Among("track", BeginProgram)
<1>1. TracksFirst(S)
  BY DEF TracksInOrder, StartupTypeOK, S, K
<1>2. S.connect \in Seq(Steps) /\ S.client.observe \in Seq(Steps) /\ <<"decide">> \in Seq(Steps)
  <2>1. S.connect \in Seq(ConnectSteps) /\ S.client.observe \in Seq(ObserveSteps)
    BY SubjectPrograms
  <2>2. <<"decide">> \in Seq(Steps)
    BY AllSteps, Single
  <2> QED BY <2>1, <2>2, AllSteps, SeqMonotonic
<1>3. ~Among("track", S.client.observe)
  <2>1. S.client.observe \in Seq(ObserveSteps)
    BY SubjectPrograms
  <2> QED BY <2>1, AmongSeq DEF ObserveSteps, Lookups
<1>4. ~Among("track", <<"decide">>)
  BY Single
<1>5. Followed(S.connect \o S.client.observe) /\ S.connect \o S.client.observe \in Seq(Steps)
  BY <1>1, <1>2, <1>3, FollowedConcat DEF TracksFirst
<1>6. Followed(BeginProgram)
  BY <1>2, <1>4, <1>5, FollowedConcat, Zenon DEF BeginProgram
<1> QED BY <1>1, <1>6, BeginSteps DEF TracksFirst

LEMMA FollowedDue ==
    ASSUME Followed(wk.todo), Due("track")
    PROVE  Due("config") \/ Due("byKind")
  BY DEF Followed, Due, Among

\* Observe is over when Decide has been taken, and Connect is.
LEMMA DecideDue ==
    ASSUME TypeInv, Decide, wk' # Idle
    PROVE  \A x \in ConnectSteps \cup {"guard", "decide"} : ~Due(x)'
<1>0. StartupTypeOK
  BY DEF TypeInv, TypeOK
<1>1. CASE wk'.todo = <<"unfinalize">>
  BY <1>1, Single DEF Due, ConnectSteps
<1>2. CASE wk'.todo = CreateProgram(wk.mr.fin)
  <2>1. wk'.todo \in Seq({"finalizer", "pending"} \cup CreateSteps)
    BY <1>0, <1>2, CreateProgramSteps
  <2> QED BY <2>1, AmongSeq DEF Due, ConnectSteps, CreateSteps
<1>3. CASE wk'.todo = S.client.delete
  <2>1. wk'.todo \in Seq(DeleteSteps)
    BY <1>0, <1>3, SubjectPrograms
  <2> QED BY <2>1, AmongSeq DEF Due, ConnectSteps, DeleteSteps, Lookups
<1>4. CASE wk'.todo = UpdateProgram(wk.mr.fin, Filled(wk) # wk.mr, UpToDate(wk))
  <2>1. wk'.todo \in Seq({"finalizer", "late"} \cup UpdateSteps)
    BY <1>0, <1>4, UpdateProgramSteps
  <2> QED BY <2>1, AmongSeq DEF Due, ConnectSteps, UpdateSteps
<1> QED BY <1>1, <1>2, <1>3, <1>4, DecideOn DEF Left

LEMMA FollowedNext ==
    ASSUME WorkInv, TracksInOrder, Followed(wk.todo), [Next]_vars
    PROVE  Followed(wk'.todo)
<1>0. TypeInv /\ StartupTypeOK /\ Shaped(wk.todo)
  BY DEF WorkInv, TypeInv, TypeOK
<1>1. CASE wk' = Idle
  BY <1>1 DEF Followed, Idle
<1>2. CASE wk' = wk \/ Outdated
  BY <1>2 DEF Outdated
<1>3. CASE Begin
  BY <1>0, <1>3, BeginTypes, FollowedBegin
<1>4. CASE Decide /\ wk' # Idle
  <2>1. ~Among("track", wk'.todo)
    BY <1>0, <1>4, DecideDue DEF Due, ConnectSteps
  <2> QED BY <2>1, FollowedAbsent
<1>5. CASE Advances \/ Persists
  <2>1. wk # Idle /\ wk' \in Works /\ Suffix(wk'.todo, wk.todo)
    BY <1>5 DEF Advances, Persists, NextStep, Onward
  <2>2. wk.todo \in Seq(Steps) /\ wk'.todo \in Seq(Steps)
    BY <1>0, <2>1, UnderWay DEF Works
  <2> QED BY <2>1, <2>2, SuffixFollowed
<1> QED BY <1>0, <1>1, <1>2, <1>3, <1>4, <1>5, WorkMoves

\* A finalizer is put on by a reconcile that has read the ProviderConfig.
LEMMA FinalizerTracked ==
    ASSUME WorkInv, wk # Idle, Due("finalizer") \/ Head(wk.todo) = "decide"
    PROVE  \A x \in ConnectSteps : ~Due(x)
<1>0. TypeInv /\ Shaped(wk.todo)
  BY DEF WorkInv
<1>1. CASE Due("finalizer")
  <2>1. wk.todo \in Seq({"finalizer", "pending", "late"} \cup CreateSteps \cup UpdateSteps)
    BY <1>0, <1>1 DEF Shaped, Due
  <2> QED BY <2>1, AmongSeq DEF Due, ConnectSteps, CreateSteps, UpdateSteps
<1>2. CASE Head(wk.todo) = "decide"
  BY <1>0, <1>2, LastStep DEF ConnectSteps
<1> QED BY <1>1, <1>2

\* No other step than these takes a step of Connect.
LEMMA ConnectKept ==
    ASSUME WorkInv, [Next]_vars, ~Track, ~GetConfig, ~Decide, wk # Idle, wk' # Idle
    PROVE  \A x \in ConnectSteps : Due(x) => Due(x)'
<1>0. TypeInv /\ Shaped(wk.todo)
  BY DEF WorkInv
<1>1. CASE wk' = wk \/ Outdated
  BY <1>1 DEF Outdated, Due
<1>2. CASE ~Outdated /\ wk' # wk
  <2>1. Advances \/ Persists
    BY <1>0, <1>2, WorkMoves DEF Begin
  <2>2. Onward
    BY <2>1 DEF Advances, Persists, NextStep
  <2>3. ~EditMR /\ ~DeleteMR /\ ~Unblock
    BY <1>0, <1>2, OutdateOn
  <2>4. \E step \in Steps \ ConnectSteps : At(step)
    <3>1. wk' # wk /\ wk # Idle
      BY <1>2
    <3>2. Reconcile
      BY <2>3, <3>1 DEF Next, vars, life, People, NewMR, DeleteConfig, ReleaseConfig, Admin, Fail,
                        GiveUp, Return
    <3>3. ~Begin
      BY <3>1 DEF Begin
    <3>4. \/ At("guard") \/ At("ref") \/ At("uid") \/ At("key") \/ At("refuse")
          \/ At("finalizer") \/ At("pending") \/ At("late") \/ At("unfinalize")
          \/ At("name") \/ At("refresh") \/ At("probe") \/ At("post") \/ At("put") \/ At("delete")
          \/ At("valid") \/ At("reserved") \/ At("resolved") \/ At("wellKnown")
      BY <3>2, <3>3 DEF Reconcile, Guard, ByRef, ByUID, ByKey, RefuseKey, AddFinalizer, Save,
                        RemoveFinalizer, Name, Probe, Check, Post, Put, Delete
    <3> HIDE DEF At
    <3> QED BY <3>4 DEF Steps, ConnectSteps, ObserveSteps, CreateSteps, UpdateSteps, DeleteSteps,
                        Lookups
  <2>5. Head(wk.todo) \notin ConnectSteps
    BY <2>4 DEF At
  <2> QED BY <2>2, <2>5 DEF Onward, ConnectSteps, Lookups
<1> QED BY <1>1, <1>2

\* Who puts the finalizer on, and who makes the resource.
LEMMA FinKept ==
    ASSUME WorkInv, [Next]_vars, ~AddFinalizer
    PROVE  /\ Managed' /\ mr'.fin => Managed /\ mr.fin
           /\ Managed' => Managed \/ NewMR
<1>0. TypeInv /\ Copies /\ mr \in MRs \cup {NoMR, Gone}
  BY DEF WorkInv, TypeInv, TypeOK
<1>1. CASE Lifts
  BY <1>1 DEF Lifts, Managed
<1>2. CASE NewMR
  <2>1. \E x, v, e, b :
          mr' = [phase |-> "live", fin |-> FALSE, begun |-> FALSE,
                 ext |-> e, key |-> x, val |-> v, bad |-> b]
    BY <1>2 DEF NewMR
  <2>2. ~mr'.fin
    BY <2>1
  <2> QED BY <1>2, <2>2
<1>3. CASE EditMR \/ DeleteMR
  <2>1. mr.phase = "live"
    BY <1>3 DEF EditMR, DeleteMR
  <2>2. mr \in MRs /\ Managed
    BY <1>0, <2>1 DEF NoMR, Gone, Managed
  <2>3. mr' = Gone \/ mr'.fin = mr.fin
    <3>1. CASE EditMR
      <4>1. \E x, v : mr' = [mr EXCEPT !.key = x, !.val = v, !.bad = FALSE]
        BY <3>1 DEF EditMR
      <4> QED BY <2>2, <4>1 DEF MRs
    <3>2. CASE DeleteMR
      BY <2>2, <3>2 DEF DeleteMR, MRs
    <3> QED BY <1>3, <3>1, <3>2
  <2>4. mr' = Gone => ~Managed'
    BY DEF Managed, Gone
  <2> QED BY <2>2, <2>3, <2>4
<1>4. CASE Save /\ mr' # mr
  BY <1>0, <1>4, SaveMR
<1>5. CASE RemoveFinalizer /\ mr' # mr
  BY <1>5 DEF RemoveFinalizer, Persist, Gone, Managed
<1>6. CASE Name /\ mr' # mr
  BY <1>0, <1>6, NameMR
<1>7. mr' = mr => Lifts
  BY DEF Lifts
<1> QED BY <1>0, <1>1, <1>2, <1>3, <1>4, <1>5, <1>6, <1>7, LiftsElse

LEMMA ConfigNext ==
    ASSUME WorkInv, ConfigInv, TracksInOrder, [Next]_vars
    PROVE  ConfigInv'
<1>0. /\ TypeInv /\ Shaped(wk.todo) /\ Copies /\ Followed(wk'.todo) /\ StartupTypeOK
      /\ config \in [phase : {"live", "deleting", "gone"}, used : BOOLEAN]
      /\ mr \in MRs \cup {NoMR, Gone}
  BY FollowedNext DEF WorkInv, ConfigInv, TypeInv, TypeOK
<1>1. CASE DeleteMR /\ ~mr.fin
  <2>1. ~Managed'
    BY <1>1 DEF DeleteMR, Gone, Managed
  <2> QED BY <1>0, <2>1 DEF ConfigInv
<1>2. CASE DeleteMR /\ mr.fin
  <2>1. config.used /\ config.phase # "gone" /\ config' = config
    BY <1>2 DEF ConfigInv, DeleteMR, Managed
  <2> QED BY <1>0, <2>1 DEF ConfigInv
<1>3. CASE DeleteConfig
  <2>1. config'.used = config.used /\ config'.phase = "deleting" /\ wk' = wk /\ mr' = mr
    BY <1>0, <1>3 DEF DeleteConfig
  <2> QED BY <1>0, <2>1 DEF ConfigInv, Managed, Due
<1>4. CASE ReleaseConfig
  <2>1. ~config.used /\ config'.used = config.used /\ wk' = wk /\ mr' = mr
    BY <1>0, <1>4 DEF ReleaseConfig
  <2>2. Managed /\ wk # Idle => Due("track") /\ (Due("config") \/ Due("byKind"))
    BY <2>1, FollowedDue DEF ConfigInv
  <2> QED BY <1>0, <2>1, <2>2 DEF ConfigInv, Managed, Due
<1>5. CASE Track
  <2>1. wk # Idle /\ Head(wk.todo) = "track" /\ Due("track") /\ mr' = mr
    BY <1>0, <1>5, AtDue DEF Track
  <2>2. config'.phase = config.phase /\ (Managed => config'.used)
    <3>1. PICK u \in BOOLEAN : config' = [config EXCEPT !.used = u] /\ (Managed => u)
      <4>1. Managed \in BOOLEAN
        BY DEF Managed
      <4> QED BY <1>5, <4>1, Zenon DEF Track
    <3> QED BY <1>0, <3>1
  <2>3. wk' # Idle => NextStep
    BY <1>0, <1>5, PassingOn DEF Passing
  <2>4. wk' # Idle => (Due("config") => Due("config")') /\ (Due("byKind") => Due("byKind")')
    BY <2>1, <2>3 DEF NextStep
  <2> QED BY <1>0, <2>1, <2>2, <2>4 DEF ConfigInv, Managed
<1>6. CASE GetConfig
  <2>1. wk # Idle /\ Head(wk.todo) # "track" /\ mr' = mr /\ config' = config
    BY <1>0, <1>6, AtDue DEF GetConfig
  <2>2. wk' # Idle => NextStep /\ config.phase # "gone"
    BY <1>0, <1>6, PassingOn DEF Passing, GetConfig, Return
  <2>3. wk' # Idle => (Due("track") => Due("track")')
    BY <2>1, <2>2 DEF NextStep
  <2> QED BY <1>0, <2>1, <2>2, <2>3 DEF ConfigInv, Managed
<1>7. CASE AddFinalizer
  <2>1. wk # Idle /\ Due("finalizer") /\ config' = config
    BY <1>0, <1>7, AtDue DEF AddFinalizer
  <2>2. ~Due("track") /\ ~Due("config") /\ ~Due("byKind")
    BY <2>1, FinalizerTracked DEF ConnectSteps
  <2>3. Managed => config.used /\ config.phase # "gone"
    BY <2>1, <2>2 DEF ConfigInv
  <2>4. Managed' => Managed
    <3>1. wk.fresh \/ mr' = mr
      BY <1>7 DEF AddFinalizer, Persist
    <3> QED BY <1>0, <2>1, <3>1 DEF Copies, Managed
  <2> QED BY <1>0, <2>1, <2>3, <2>4 DEF ConfigInv
<1>8. CASE RemoveFinalizer
  <2>1. wk' = Idle /\ wk # Idle /\ wk \in Works
    BY <1>0, <1>8, RemoveFinalizerOn, UnderWay
  <2>2. CASE wk.fresh
    <3>1. ~Managed'
      BY <1>8, <2>2 DEF RemoveFinalizer, Persist, Gone, Managed
    <3> QED BY <1>0, <3>1 DEF ConfigInv
  <2>3. CASE ~wk.fresh
    <3>1. mr' = mr
      BY <1>8, <2>3 DEF RemoveFinalizer, Persist
    <3>2. config' = [config EXCEPT !.used = config.used /\ TRUE]
      BY <1>8, <2>3 DEF RemoveFinalizer
    <3>3. config'.phase = config.phase /\ config'.used = config.used
      BY <1>0, <3>2
    <3> QED BY <1>0, <2>1, <3>1, <3>3 DEF ConfigInv, Managed
  <2> QED BY <2>2, <2>3
<1>9. CASE Decide
  <2>1. wk # Idle /\ mr' = mr /\ config' = config /\ Due("decide") /\ Head(wk.todo) = "decide"
    BY <1>0, <1>9, DecideOn DEF Decide
  <2>2. ~Due("track") /\ ~Due("config") /\ ~Due("byKind")
    BY <2>1, FinalizerTracked DEF ConnectSteps
  <2> QED BY <1>0, <2>1, <2>2 DEF ConfigInv, Managed
<1>10. CASE /\ ~DeleteMR /\ ~DeleteConfig /\ ~ReleaseConfig /\ ~Track /\ ~GetConfig
            /\ ~AddFinalizer /\ ~RemoveFinalizer /\ ~Decide
  <2>1. config' = config
    BY <1>10 DEF Next, vars, life, People, Reconcile, NewMR, EditMR, Unblock, Admin, Begin, Guard, ByRef,
           ByUID, ByKey, RefuseKey, Save, Name, Probe, Check, Post, Put, Delete, Fail
  <2>2. Managed' /\ mr'.fin => config.used /\ config.phase # "gone"
    BY <1>10, FinKept DEF ConfigInv
  <2>3. CASE wk' = Idle
    BY <1>0, <2>1, <2>2, <2>3 DEF ConfigInv
  <2>4. CASE wk = Idle /\ wk' # Idle
    <3>1. Begin
      BY <1>0, <1>10, <2>4, WorkMoves DEF Outdated, Advances, Persists
    <3>2. wk'.todo = BeginProgram
      BY <1>0, <3>1, BeginTypes
    <3>3. Due("track")'
      BY <1>0, <3>2, FollowedBegin DEF Due
    <3>4. Due("config")' \/ Due("byKind")'
      BY <1>0, <3>3 DEF Followed, Due, Among
    <3> QED BY <1>0, <2>1, <2>2, <3>3, <3>4 DEF ConfigInv
  <2>5. CASE wk # Idle /\ wk' # Idle
    <3>1. \A x \in ConnectSteps : Due(x) => Due(x)'
      BY <1>10, <2>5, ConnectKept
    <3>2. Managed' => Managed
      BY <1>0, <1>10, <2>5, FinKept DEF NewMR, Copies
    <3> QED BY <1>0, <2>1, <2>2, <2>5, <3>1, <3>2 DEF ConfigInv, ConnectSteps
  <2> QED BY <2>3, <2>4, <2>5
<1> QED BY <1>1, <1>2, <1>3, <1>4, <1>5, <1>6, <1>7, <1>8, <1>9, <1>10

\* The ProviderConfig outlives the finalizer, for every table whose Connect records its
\* use before it reads it: what lets a ProviderConfig go sees no use on record, and a
\* reconcile puts the finalizer on after it has read a ProviderConfig that was there.
THEOREM ConfigKeptHolds == TracksInOrder => (Spec => []ConfigKept)
<1> SUFFICES ASSUME TracksInOrder PROVE Spec => []ConfigKept
  OBVIOUS
<1>1. Init => ConfigInv
  BY DEF Init, ConfigInv, Followed, Idle, NoMR, Managed
<1>2. WorkInv /\ ConfigInv /\ [Next]_vars => ConfigInv'
  BY ConfigNext
<1>3. ConfigInv => ConfigKept
  BY DEF ConfigInv, ConfigKept
<1> QED BY <1>1, <1>2, <1>3, WorkHolds, PTL DEF Spec

-----------------------------------------------------------------------------
(***************************************************************************)
(* The process.                                                            *)
(***************************************************************************)
\* A gated process ends for a crash alone, for every table that sets the resilient
\* recorder up: its informers wait for the CRD to be established, and the recorder takes
\* a kind that the RESTMapper does not know for an empty list.
THEOREM StaysUpHolds == AllRecordSafely => (Spec => StaysUp)
<1> SUFFICES ASSUME AllRecordSafely PROVE Spec => StaysUp
  OBVIOUS
<1>1. TypeInv /\ [Next]_vars => [proc.gated /\ proc' = Down => left' < left]_startup
  <2> SUFFICES ASSUME TypeInv, [Next]_vars, proc.gated, proc' = Down PROVE left' < left
    BY DEF startup
  <2>1. /\ subject \in Subjects /\ left \in Nat
        /\ proc \in [phase : {"down", "waiting", "running"}, gated : BOOLEAN]
    BY StartupConstants DEF TypeInv, TypeOK, StartupTypeOK
  <2>2. ~Down.gated /\ Down.phase = "down"
    BY DEF Down
  <2>3. proc' # proc
    BY <2>2
  <2>4. ~Start
    <3>1. Start => proc'.phase \in {"waiting", "running"}
      BY DEF Start
    <3> QED BY <2>2, <3>1
  <2>5. ~OpenGate
    <3>1. OpenGate => proc'.phase = "running"
      BY <2>1 DEF OpenGate
    <3> QED BY <2>2, <3>1
  <2>6. ~SyncTimeout
    BY DEF SyncTimeout
  <2>7. ~Record
    <3>1. "resilientRecorder" \in {S.setup[i] : i \in DOMAIN S.setup}
      BY <2>1, Zenon DEF AllRecordSafely, RecordsSafely, Among, S, K
    <3> QED BY <2>3, <3>1 DEF Record
  <2>8. Crash
    BY <2>3, <2>4, <2>5, <2>6, <2>7 DEF Next, vars, Boot, Install, Discover
  <2> QED BY <2>1, <2>8 DEF Crash, Spend
<1> QED BY <1>1, TypesHold, PTL DEF Spec, StaysUp

-----------------------------------------------------------------------------
(***************************************************************************)
(* The search.                                                             *)
(***************************************************************************)
LEMMA FoundDecides ==
    ASSUME WorkInv, SearchInv, ~Guarded, Due("decide"), wk # Idle, Head(wk.todo) \in Lookups,
           wk'.todo = Searched(wk), wk'.todo # <<>>
    PROVE  \A x : Due(x)' => x = "decide"
<1> DEFINE d == Searched(wk)
<1>1. wk.todo \in Seq(Steps) /\ wk.todo # <<>> /\ Tail(wk.todo) \in Seq(Steps) /\ Shaped(wk.todo)
  BY UnderWay DEF WorkInv
<1>2. wk.todo \in Seq(ConnectSteps \cup ObserveSteps \cup {"decide"})
  BY <1>1 DEF Shaped, Due
<1>3. \A x \in ConnectSteps \cup {"guard"} : ~Among(x, Tail(wk.todo))
  BY <1>1, NotLeft DEF SearchInv
<1>4. d \in Seq(Steps) /\ Suffix(d, wk.todo) /\ Suffix(d, Tail(wk.todo)) /\ d # <<>>
  BY <1>1, SearchedSuffix
<1>5. Head(d) \notin Lookups
  BY <1>1, <1>4, SearchedHead
<1> HIDE DEF d
<1>6. Among(Head(d), d) /\ Among(Head(d), Tail(wk.todo)) /\ Among(Head(d), wk.todo)
  BY <1>1, <1>4, HeadAmong, SuffixAmong
<1>7. Head(d) \in ConnectSteps \cup ObserveSteps \cup {"decide"}
  BY <1>2, <1>6, AmongSeq
<1>8. Head(d) = "decide"
  BY <1>3, <1>5, <1>6, <1>7 DEF ObserveSteps
<1>9. Shaped(d)
  BY <1>1, <1>4, ShapedSuffix
<1>10. \A x \in Steps : ~Among(x, Tail(d))
  BY <1>4, <1>8, <1>9, NotLeft DEF Shaped
<1>11. ASSUME NEW x, Among(x, d) PROVE x = "decide"
  <2>1. x \in Steps
    BY <1>4, <1>11, AmongSeq
  <2>2. x = Head(d) \/ Among(x, Tail(d))
    BY <1>4, <1>11, HeadOrLeft
  <2> QED BY <1>8, <1>10, <2>1, <2>2
<1> QED BY <1>11 DEF d, Due

LEMMA SearchBegin ==
    ASSUME StartupTypeOK, ~Guarded
    PROVE  NoneAfter(Lookups, ConnectSteps \cup {"guard"}, BeginProgram)
<1> DEFINE B == ConnectSteps \cup {"guard"}
<1>1. S.connect \in Seq(ConnectSteps) /\ S.client.observe \in Seq(ObserveSteps)
  BY SubjectPrograms
<1>2. S.connect \in Seq(Steps) /\ S.client.observe \in Seq(Steps) /\ <<"decide">> \in Seq(Steps)
  <2>1. <<"decide">> \in Seq(Steps)
    BY AllSteps, Single
  <2> QED BY <1>1, <2>1, AllSteps, SeqMonotonic
<1>3. (\A x \in Lookups : ~Among(x, S.connect)) /\ NoneAfter(Lookups, B, S.connect)
  BY <1>1, AmongSeq, NoneAfterAbsent DEF Lookups, ConnectSteps
<1>4. NoneAfter(Lookups, B, S.client.observe)
  <2>1. \A x \in B : ~Among(x, S.client.observe)
    BY <1>1, AmongSeq DEF Guarded, ConnectSteps, ObserveSteps, Lookups
  <2>2. \A j \in DOMAIN S.client.observe : S.client.observe[j] \notin B
    BY <2>1 DEF Among
  <2> QED BY <2>2 DEF NoneAfter
<1>5. NoneAfter(Lookups, B, <<"decide">>) /\ \A x \in B : ~Among(x, <<"decide">>)
  BY Single DEF ConnectSteps
<1> HIDE DEF B
<1>6. S.connect \o S.client.observe \in Seq(Steps)
  BY <1>2
<1>7. NoneAfter(Lookups, B, S.connect \o S.client.observe)
  BY <1>2, <1>3, <1>4, ConcatNoneAfter, Zenon
<1>8. NoneAfter(Lookups, B, BeginProgram)
  BY <1>2, <1>5, <1>6, <1>7, ConcatNoneAfter, Zenon DEF BeginProgram
<1> QED BY <1>8 DEF B

\* What a reconcile that goes on has done.
LEMMA GoesOn ==
    ASSUME WorkInv, [Next]_vars, wk # Idle, wk' # Idle
    PROVE  \/ wk' = wk \/ Outdated \/ Persists \/ Decide \/ Passing
           \/ Guard \/ ByRef \/ ByUID \/ ByKey \/ RefuseKey \/ Post \/ Put
<1>0. TypeInv /\ Shaped(wk.todo)
  BY DEF WorkInv
<1>1. CASE EditMR \/ DeleteMR \/ Unblock
  BY <1>0, <1>1, OutdateOn
<1>2. CASE AddFinalizer \/ Save
  BY <1>0, <1>2, SavesOn
<1>3. CASE RemoveFinalizer
  BY <1>0, <1>3, RemoveFinalizerOn
<1>4. ~Name /\ ~Fail /\ ~Begin
  BY DEF Name, Fail, GiveUp, Return, Begin
<1>5. CASE UNCHANGED life \/ NewMR \/ DeleteConfig \/ ReleaseConfig \/ Admin
  BY <1>5 DEF life, NewMR, DeleteConfig, ReleaseConfig, Admin
<1> QED
  BY <1>1, <1>2, <1>3, <1>4, <1>5 DEF Next, People, Reconcile, vars, life, Passing

\* While Observe goes on, it has found something or it takes another look.
LEMMA SearchMoves ==
    ASSUME WorkInv, [Next]_vars, Advances \/ Persists
    PROVE  \/ wk'.how = wk.how /\ wk'.at = wk.at
           \/ wk'.how = "none" /\ NextStep /\ Head(wk.todo) \in Lookups
           \/ wk'.how # "none" /\ wk'.todo = Searched(wk) /\ Head(wk.todo) \in Lookups
<1>0. TypeInv /\ wk # Idle /\ wk' # Idle
  BY DEF WorkInv, Advances, Persists, Onward, NextStep
<1>1. CASE wk' = wk \/ Outdated \/ Persists
  BY <1>1 DEF Outdated, Persists, Kept3
<1>2. CASE Passing
  BY <1>0, <1>2, PassingOn DEF Kept3
<1>3. CASE Guard
  BY <1>0, <1>3, GuardOn DEF Kept3
<1>4. CASE ByRef
  BY <1>0, <1>4, ByRefOn DEF Lookups
<1>5. CASE ByUID
  BY <1>0, <1>5, ByUIDOn DEF Lookups
<1>6. CASE ByKey
  BY <1>0, <1>6, ByKeyOn DEF Lookups
<1>7. CASE RefuseKey
  BY <1>0, <1>7, RefuseKeyOn DEF Lookups
<1>8. CASE Post
  BY <1>0, <1>8, PostOn DEF Kept3
<1>9. CASE Put
  BY <1>0, <1>9, PutMoves
<1>10. CASE Decide
  BY <1>0, <1>10, DecideCopies
<1> QED
  BY <1>0, <1>1, <1>2, <1>3, <1>4, <1>5, <1>6, <1>7, <1>8, <1>9, <1>10, GoesOn

LEMMA SearchNext ==
    ASSUME WorkInv, SearchInv, [Next]_vars
    PROVE  SearchInv'
<1>0. TypeInv /\ StartupTypeOK /\ Shaped(wk.todo) /\ subject' = subject
  BY StartupStep DEF WorkInv, TypeInv, TypeOK
<1>00. Guarded' = Guarded
  BY <1>0 DEF Guarded, S, K
<1>1. CASE wk' = Idle
  <2>1. ~Due("guard")' /\ ~Due("decide")'
    BY <1>1 DEF Due, Among, Idle
  <2> QED BY <2>1 DEF SearchInv
<1>2. CASE wk' # Idle /\ (wk' = wk \/ Outdated)
  <2>1. wk'.todo = wk.todo /\ wk'.how = wk.how
    BY <1>2 DEF Outdated, Kept3
  <2> QED BY <1>00, <2>1 DEF SearchInv, Due
<1>3. CASE Begin
  <2>1. wk'.todo = BeginProgram /\ wk'.how = "none"
    BY <1>0, <1>3, BeginTypes
  <2>2. Due("guard")' => Guarded
    <3>1. S.connect \in Seq(ConnectSteps)
      BY <1>0, SubjectPrograms
    <3>2. ~Among("guard", S.connect)
      BY <3>1, AmongSeq DEF ConnectSteps
    <3> QED BY <1>0, <2>1, <3>2, BeginSteps DEF Due, Guarded
  <2> QED BY <1>0, <1>00, <2>1, <2>2, SearchBegin DEF SearchInv
<1>4. CASE Decide /\ wk' # Idle
  <2>1. ~Due("guard")' /\ ~Due("decide")'
    BY <1>0, <1>4, DecideDue
  <2> QED BY <2>1 DEF SearchInv
<1>5. CASE Advances \/ Persists
  <2>1. Onward /\ wk # Idle
    BY <1>5 DEF Advances, Persists, NextStep
  <2>2. wk.todo \in Seq(Steps) /\ wk'.todo \in Seq(Steps) /\ wk'.todo # <<>>
    BY <1>0, <2>1, UnderWay DEF Works, Onward
  <2>3. Due("guard")' => Guarded
    BY <2>1 DEF Onward, SearchInv
  <2>4. CASE Due("decide")' /\ ~Guarded
    <3>1. Due("decide") /\ NoneAfter(Lookups, ConnectSteps \cup {"guard"}, wk.todo)
      BY <2>1, <2>4 DEF Onward, SearchInv
    <3>2. NoneAfter(Lookups, ConnectSteps \cup {"guard"}, wk'.todo)
      BY <2>1, <2>2, <3>1, SuffixNoneAfter DEF Onward
    <3>3. ASSUME wk'.how # "none", NEW x \in Steps, Due(x)' PROVE x = "decide"
      <4>1. CASE wk'.how = wk.how
        BY <2>1, <2>4, <3>1, <3>3, <4>1 DEF Onward, SearchInv
      <4>2. CASE wk'.todo = Searched(wk) /\ Head(wk.todo) \in Lookups
        BY <2>1, <2>2, <2>4, <3>1, <3>3, <4>2, FoundDecides
      <4> QED BY <1>5, <3>3, <4>1, <4>2, SearchMoves
    <3> QED BY <1>00, <2>3, <3>2, <3>3 DEF SearchInv
  <2>5. CASE ~(Due("decide")' /\ ~Guarded)
    BY <1>00, <2>3, <2>5 DEF SearchInv
  <2> QED BY <2>4, <2>5
<1> QED BY <1>0, <1>1, <1>2, <1>3, <1>4, <1>5, WorkMoves

-----------------------------------------------------------------------------
(***************************************************************************)
(* The objects.                                                            *)
(***************************************************************************)
LEMMA SameTable ==
    ASSUME WorkInv, [Next]_vars
    PROVE  /\ Guarded' = Guarded /\ Stamped' = Stamped /\ Renamable' = Renamable /\ Proof' = Proof
           /\ Reserving' = Reserving /\ Keeping' = Keeping
<1>1. subject' = subject
  BY StartupStep DEF WorkInv, TypeInv
<1>2. S' = S
  BY <1>1 DEF S, K
<1>3. Stamped' = Stamped
  BY <1>2 DEF Stamped
<1> QED BY <1>1, <1>2, <1>3 DEF Guarded, Renamable, Proof, Reserving, Keeping

\* Objects go, or are edited.
Shrinks == \A r \in Ref : Exists(r)' => Exists(r) /\ grid'[r].own = grid[r].own

LEMMA ShrinksMine == ASSUME Shrinks PROVE Mine' \subseteq Mine /\ Unowned' \subseteq Unowned
  BY DEF Shrinks, Mine, Unowned

\* An administrator moves an object to another key.
Renames ==
    /\ "rename" \in AdminOps /\ Stamped /\ wk' = wk /\ mr' = mr
    /\ \E r \in Ref, x \in Key :
         /\ Exists(r)
         /\ grid' = [grid EXCEPT ![r] = Absent, ![[r EXCEPT !.key = x]] = grid[r]]

LEMMA RenamesMine == ASSUME TypeInv, Renames, Mine = {} PROVE Mine' = {}
<1>1. PICK r \in Ref, x \in Key :
         /\ Exists(r)
         /\ grid' = [grid EXCEPT ![r] = Absent, ![[r EXCEPT !.key = x]] = grid[r]]
  BY DEF Renames
<1>2. grid \in [Ref -> Object \cup {Absent}] /\ Absent \notin Object
  BY LifecycleConstants DEF TypeInv, TypeOK, Grids
<1> SUFFICES ASSUME NEW q \in Ref, Exists(q)', grid'[q].own = "mine" PROVE FALSE
  BY DEF Mine
<1>3. CASE q = [r EXCEPT !.key = x]
  <2>1. grid'[q] = grid[r]
    BY <1>1, <1>2, <1>3
  <2> QED BY <1>1, <2>1 DEF Mine
<1>4. CASE q # [r EXCEPT !.key = x]
  <2>1. grid'[q] = IF q = r THEN Absent ELSE grid[q]
    BY <1>1, <1>2, <1>4
  <2> QED BY <2>1 DEF Mine, Exists
<1> QED BY <1>3, <1>4

LEMMA GridMoves ==
    ASSUME TypeInv, [Next]_vars
    PROVE  Shrinks \/ Renames \/ Post \/ Put
<1>1. grid \in [Ref -> Object \cup {Absent}] /\ Absent \notin Object
  BY LifecycleConstants DEF TypeInv, TypeOK, Grids
<1>2. CASE grid' = grid
  BY <1>2 DEF Shrinks, Exists
<1>3. ASSUME NEW r \in Ref, grid' = [grid EXCEPT ![r] = Absent] PROVE Shrinks
  BY <1>1, <1>3 DEF Shrinks, Exists
<1>4. CASE Admin
  <2>1. CASE \E r \in Ref : grid' = [grid EXCEPT ![r] = Absent]
    BY <1>3, <2>1
  <2>2. CASE \E r \in Ref, v \in Val : Exists(r) /\ grid' = [grid EXCEPT ![r].val = v]
    <3>1. PICK r \in Ref, v \in Val : Exists(r) /\ grid' = [grid EXCEPT ![r].val = v]
      BY <2>2
    <3>2. grid[r] \in Object
      BY <1>1, <3>1 DEF Exists
    <3>3. [grid[r] EXCEPT !.val = v].own = grid[r].own
      BY <3>2 DEF Object
    <3>4. \A q \in Ref : grid'[q] = IF q = r THEN [grid[r] EXCEPT !.val = v] ELSE grid[q]
      BY <1>1, <3>1
    <3> QED BY <3>1, <3>3, <3>4 DEF Shrinks, Exists
  <2>3. CASE /\ "rename" \in AdminOps
             /\ \E r \in Ref, x \in Key \ {Reserved} :
                  /\ Stamped /\ Exists(r)
                  /\ grid' = [grid EXCEPT ![r] = Absent, ![[r EXCEPT !.key = x]] = grid[r]]
    BY <1>4, <2>3 DEF Admin, Renames
  <2> QED BY <1>2, <1>4, <2>1, <2>2, <2>3 DEF Admin
<1>5. CASE Delete
  <2>1. wk # Idle /\ wk.at \in Ref \cup {NoRef}
    BY <1>5, AtDue, UnderWay DEF Delete
  <2>2. grid' = grid \/ (wk.at \in Ref /\ grid' = [grid EXCEPT ![wk.at] = Absent])
    BY <1>5, <2>1 DEF Delete
  <2> QED BY <1>2, <1>3, <2>2
<1> QED
  BY <1>2, <1>4, <1>5
     DEF Next, vars, life, People, Reconcile, NewMR, EditMR, DeleteMR, Unblock, DeleteConfig, ReleaseConfig,
         Begin, Track, GetConfig, Guard, ByRef, ByUID, ByKey, RefuseKey, Decide, AddFinalizer, Save,
         RemoveFinalizer, Name, Probe, Check, Fail

\* Who takes the finalizer off.
LEMMA FinStays ==
    ASSUME WorkInv, [Next]_vars, Managed, mr.fin, ~RemoveFinalizer
    PROVE  Managed' /\ mr'.fin
<1>0. TypeInv /\ Copies /\ mr \in MRs
  BY DEF WorkInv, TypeInv, TypeOK, Managed, NoMR, Gone
<1>1. CASE Lifts
  BY <1>1 DEF Lifts, Managed
<1>2. ~NewMR
  <2>1. NoMR.phase = "none"
    BY DEF NoMR
  <2>2. mr # NoMR
    BY <2>1 DEF Managed
  <2> QED BY <2>2 DEF NewMR
<1>3. CASE EditMR
  <2>1. \E x, v : mr' = [mr EXCEPT !.key = x, !.val = v, !.bad = FALSE]
    BY <1>3 DEF EditMR
  <2> QED BY <1>0, <2>1 DEF MRs, Managed
<1>4. CASE DeleteMR
  BY <1>0, <1>4 DEF DeleteMR, MRs, Managed
<1>5. CASE AddFinalizer /\ mr' # mr
  <2>1. wk # Idle /\ mr' = [wk.mr EXCEPT !.fin = TRUE] /\ wk.mr \in MRs
    BY <1>0, <1>5, AtDue, UnderWay DEF AddFinalizer, Persist
  <2> QED BY <2>1 DEF MRs, Managed
<1>6. CASE Save /\ mr' # mr
  BY <1>0, <1>6, SaveMR
<1>7. CASE Name /\ mr' # mr
  BY <1>0, <1>7, NameMR
<1>8. mr' = mr => Lifts
  BY DEF Lifts
<1> QED BY <1>0, <1>1, <1>2, <1>3, <1>4, <1>5, <1>6, <1>7, <1>8, LiftsElse

\* Where keys are fixed, that of the resource is.
LEMMA KeyStays ==
    ASSUME WorkInv, [Next]_vars, ~Renamable, Managed
    PROVE  Managed' => mr'.key = mr.key
<1>0. TypeInv /\ Copies /\ mr \in MRs
  BY DEF WorkInv, TypeInv, TypeOK, Managed, NoMR, Gone
<1>1. CASE Lifts
  BY <1>1 DEF Lifts
<1>2. ~NewMR
  <2>1. NoMR.phase = "none"
    BY DEF NoMR
  <2>2. mr # NoMR
    BY <2>1 DEF Managed
  <2> QED BY <2>2 DEF NewMR
<1>3. CASE EditMR
  <2>1. \E v : mr' = [mr EXCEPT !.key = mr.key, !.val = v, !.bad = FALSE]
    BY <1>3 DEF EditMR
  <2> QED BY <1>0, <2>1 DEF MRs
<1>4. CASE DeleteMR
  BY <1>0, <1>4 DEF DeleteMR, MRs, Managed, Gone
<1>5. CASE AddFinalizer /\ mr' # mr
  <2>1. wk # Idle /\ mr' = [wk.mr EXCEPT !.fin = TRUE] /\ wk.mr \in MRs
    BY <1>0, <1>5, AtDue, UnderWay DEF AddFinalizer, Persist
  <2> QED BY <1>0, <2>1 DEF MRs, Copies
<1>6. CASE Save /\ mr' # mr
  BY <1>0, <1>6, SaveMR
<1>7. CASE RemoveFinalizer /\ mr' # mr
  BY <1>7 DEF RemoveFinalizer, Persist, Gone, Managed
<1>8. CASE Name /\ mr' # mr
  BY <1>0, <1>8, NameMR
<1>9. mr' = mr => Lifts
  BY DEF Lifts
<1> QED BY <1>0, <1>1, <1>2, <1>3, <1>4, <1>5, <1>6, <1>7, <1>8, <1>9, LiftsElse

-----------------------------------------------------------------------------
(***************************************************************************)
(* No orphan.                                                              *)
(***************************************************************************)
\* The finalizer is on when a request is made.
LEMMA RequestFin ==
    ASSUME WorkInv, OrphanInv, At("post") \/ At("put")
    PROVE  Managed /\ mr.fin
<1>0. TypeInv /\ Shaped(wk.todo) /\ Copies
  BY DEF WorkInv
<1>1. wk # Idle /\ Head(wk.todo) \in {"post", "put"} /\ (Due("post") \/ Due("put"))
  BY <1>0, AtDue
<1>2. wk.todo \in Seq(Steps) /\ wk.todo # <<>> /\ Head(wk.todo) \in Steps
  BY <1>0, <1>1, UnderWay
<1>3. ~Among("finalizer", Tail(wk.todo))
  BY <1>0, <1>2, NotLeft DEF Shaped
<1>4. ~Due("finalizer")
  BY <1>1, <1>2, <1>3, HeadOrLeft DEF Due
<1> QED BY <1>0, <1>1, <1>4 DEF OrphanInv, Copies

LEMMA ProofObserved ==
    ASSUME StartupTypeOK, SearchesInOrder, ~Guarded
    PROVE  Among(Proof, S.client.observe) /\ (~Stamped => ~Renamable)
<1>1. SearchesFirst(S, subject.kind \in FixedKeys)
  BY DEF SearchesInOrder, StartupTypeOK, S, K
<1> QED BY <1>1 DEF SearchesFirst, Guarded, Stamped, Proof, Renamable

LEMMA PostOnceCreate ==
    ASSUME StartupTypeOK, SearchesInOrder, NEW fin
    PROVE  NoneAfter({"post"}, {"post"}, CreateProgram(fin))
<1> DEFINE A == {"post"}
           o == Optional(~fin, "finalizer")
           p == <<"pending">>
           c == S.client.create
<1>1. NoneAfter(A, A, c)
  BY DEF SearchesInOrder, SearchesFirst, StartupTypeOK, S, K
<1>2. NoneAfter(A, A, o) /\ \A x \in A : ~Among(x, o)
  BY OptionalSingle, OptionalSteps
<1>3. NoneAfter(A, A, p) /\ \A x \in A : ~Among(x, p)
  BY Single
<1>4. o \in Seq({"finalizer"}) /\ c \in Seq(CreateSteps) /\ p \in Seq(Steps)
  BY OptionalSteps, SubjectPrograms, AllSteps, Single
<1>5. CreateProgram(fin) = (o \o p) \o c
  BY DEF CreateProgram
<1> HIDE DEF A, o, p, c
<1>6. o \in Seq(Steps) /\ c \in Seq(Steps)
  BY <1>4, AllSteps, SeqMonotonic
<1>7. o \o p \in Seq(Steps)
  BY <1>4, <1>6
<1>8. NoneAfter(A, A, o \o p)
  BY <1>2, <1>3, <1>4, <1>6, ConcatNoneAfter, Zenon
<1>9. \A x \in A : ~Among(x, o \o p)
  BY <1>2, <1>3, <1>4, <1>6, AmongConcat, Zenon
<1>10. NoneAfter(A, A, CreateProgram(fin))
  BY <1>1, <1>5, <1>6, <1>7, <1>8, <1>9, ConcatNoneAfter, Zenon
<1> QED BY <1>10 DEF A

\* Which of the requests is still due when Decide has been taken.
LEMMA DecideRequests ==
    ASSUME TypeInv, Decide, wk' # Idle
    PROVE  /\ Due("post")' => wk.how = "none" /\ wk'.todo = CreateProgram(wk.mr.fin)
           /\ Due("unfinalize")' => wk.how = "none"
           /\ Due("put")' => wk.how # "none" /\ wk.mr.phase = "live"
           /\ Due("delete")' => wk.how # "none" /\ wk.mr.phase = "deleting"
           /\ Due("post")' \/ Due("put")' => wk.mr.fin \/ Due("finalizer")'
<1>0. StartupTypeOK
  BY DEF TypeInv, TypeOK
<1>1. CASE wk.how = "none" /\ wk'.todo = <<"unfinalize">>
  BY <1>1, Single DEF Due
<1>2. CASE wk.how = "none" /\ wk'.todo = CreateProgram(wk.mr.fin)
  <2>1. /\ wk'.todo \in Seq({"finalizer", "pending"} \cup CreateSteps)
        /\ ~wk.mr.fin => Among("finalizer", wk'.todo)
    BY <1>0, <1>2, CreateProgramSteps
  <2>2. ~Due("put")' /\ ~Due("delete")' /\ (wk.mr.fin \/ Due("finalizer")')
    BY <2>1, AmongSeq DEF Due, CreateSteps
  <2> QED BY <1>2, <2>2
<1>3. CASE wk.how # "none" /\ wk.mr.phase = "deleting" /\ wk'.todo = S.client.delete
  <2>1. wk'.todo \in Seq(DeleteSteps)
    BY <1>0, <1>3, SubjectPrograms
  <2>2. ~Due("post")' /\ ~Due("put")' /\ ~Due("unfinalize")'
    BY <2>1, AmongSeq DEF Due, DeleteSteps, Lookups
  <2> QED BY <1>3, <2>2
<1>4. CASE /\ wk.how # "none" /\ wk.mr.phase = "live"
           /\ wk'.todo = UpdateProgram(wk.mr.fin, Filled(wk) # wk.mr, UpToDate(wk))
  <2>1. /\ wk'.todo \in Seq({"finalizer", "late"} \cup UpdateSteps)
        /\ ~wk.mr.fin => Among("finalizer", wk'.todo)
    BY <1>0, <1>4, UpdateProgramSteps
  <2>2. ~Due("post")' /\ ~Due("delete")' /\ ~Due("unfinalize")' /\ (wk.mr.fin \/ Due("finalizer")')
    BY <2>1, AmongSeq DEF Due, UpdateSteps
  <2> QED BY <1>4, <2>2
<1> QED BY <1>1, <1>2, <1>3, <1>4, DecideOn DEF Left

\* What Begin and the end of a reconcile leave due.
LEMMA BeginRequests ==
    ASSUME TypeInv, Begin
    PROVE  \A x \in {"post", "put", "delete", "unfinalize", "finalizer", "wellKnown", "resolved"} :
             ~Due(x)'
<1>1. wk'.todo = BeginProgram
  BY BeginTypes
<1>2. BeginProgram \in Seq(ConnectSteps \cup ObserveSteps \cup {"decide"})
  BY BeginSteps DEF TypeInv, TypeOK
<1>3. \A x : Among(x, BeginProgram) => x \in ConnectSteps \cup ObserveSteps \cup {"decide"}
  BY <1>2, AmongSeq
<1> QED BY <1>1, <1>3 DEF Due, ConnectSteps, ObserveSteps, Lookups

LEMMA PostOnceNext ==
    ASSUME WorkInv, SearchesInOrder, NoneAfter({"post"}, {"post"}, wk.todo), [Next]_vars
    PROVE  NoneAfter({"post"}, {"post"}, wk'.todo)
<1>0. TypeInv /\ StartupTypeOK /\ Shaped(wk.todo)
  BY DEF WorkInv, TypeInv, TypeOK
<1>1. ASSUME ~Due("post")' PROVE NoneAfter({"post"}, {"post"}, wk'.todo)
  BY <1>1 DEF NoneAfter, Due, Among
<1>2. CASE wk' = Idle
  BY <1>1, <1>2 DEF Due, Among, Idle
<1>3. CASE wk' = wk \/ Outdated
  BY <1>3 DEF Outdated
<1>4. CASE Begin
  BY <1>0, <1>1, <1>4, BeginRequests
<1>5. CASE Decide /\ wk' # Idle
  BY <1>0, <1>1, <1>5, DecideRequests, PostOnceCreate
<1>6. CASE Advances \/ Persists
  <2>1. wk # Idle /\ wk' \in Works /\ Suffix(wk'.todo, wk.todo)
    BY <1>6 DEF Advances, Persists, NextStep, Onward
  <2>2. wk.todo \in Seq(Steps) /\ wk'.todo \in Seq(Steps)
    BY <1>0, <2>1, UnderWay DEF Works
  <2> QED BY <2>1, <2>2, SuffixNoneAfter
<1> QED BY <1>0, <1>2, <1>3, <1>4, <1>5, <1>6, WorkMoves

LEMMA RequestNext ==
    ASSUME WorkInv, OrphanInv, [Next]_vars, Due("post")' \/ Due("put")'
    PROVE  wk'.mr.fin \/ Due("finalizer")'
<1>0. TypeInv /\ Shaped(wk.todo)
  BY DEF WorkInv
<1>1. wk' # Idle
  BY DEF Due, Among, Idle
<1>2. CASE wk' = wk \/ Outdated
  BY <1>2 DEF Outdated, OrphanInv, Due
<1>3. ~Begin
  BY <1>0, BeginRequests
<1>4. CASE Decide
  BY <1>0, <1>1, <1>4, DecideRequests, DecideCopies
<1>5. CASE Advances
  BY <1>5 DEF Advances, Onward, OrphanInv, Lookups
<1>6. CASE Persists
  BY <1>6 DEF Persists, NextStep, Onward, OrphanInv, Lookups
<1> QED BY <1>0, <1>1, <1>2, <1>3, <1>4, <1>5, <1>6, WorkMoves

\* What a POST and a PUT make of the objects of the resource.
LEMMA PostMine ==
    ASSUME WorkInv, Post
    PROVE  \/ wk' = Idle /\ Shrinks
           \/ /\ Mine' \subseteq Mine \cup {[key |-> wk.mr.key, turn |-> 0]}
              /\ Unowned' \subseteq Unowned
              /\ [key |-> wk.mr.key, turn |-> 0] \in Ref
              /\ Named(wk.mr.key) = {} /\ Accepts
              /\ grid'[[key |-> wk.mr.key, turn |-> 0]].own = "mine"
              /\ \A q \in Ref : q # [key |-> wk.mr.key, turn |-> 0] => grid'[q] = grid[q]
<1>0. TypeInv /\ grid \in [Ref -> Object \cup {Absent}]
  BY DEF WorkInv, TypeInv, TypeOK, Grids
<1> DEFINE r == [key |-> wk.mr.key, turn |-> 0]
<1>1. CASE grid' = grid /\ wk' = Idle
  BY <1>1 DEF Shrinks, Exists
<1>2. CASE ~(grid' = grid /\ wk' = Idle)
  <2>1. /\ r \in Ref /\ Named(wk.mr.key) = {} /\ Accepts
        /\ \E v \in Val : grid' = [grid EXCEPT ![r] = [val |-> v, own |-> "mine"]]
    BY <1>0, <1>2, PostOn
  <2>2. PICK v \in Val : grid' = [grid EXCEPT ![r] = [val |-> v, own |-> "mine"]]
    BY <2>1
  <2> HIDE DEF r
  <2>3. grid'[r].own = "mine" /\ \A q \in Ref : q # r => grid'[q] = grid[q]
    BY <1>0, <2>1, <2>2
  <2>4. Mine' \subseteq Mine \cup {r} /\ Unowned' \subseteq Unowned
    BY <2>3 DEF Mine, Unowned, Exists
  <2> QED BY <2>1, <2>3, <2>4 DEF r
<1> QED BY <1>1, <1>2

LEMMA PutMine ==
    ASSUME WorkInv, Put
    PROVE  \/ wk' = Idle /\ Shrinks
           \/ \E q \in Moves(wk.mr.ext) :
                /\ q \in Ref /\ wk.mr.ext \in Ref /\ Exists(wk.mr.ext) /\ Accepts
                /\ Renamable => Named(wk.mr.key) \subseteq {wk.mr.ext}
                /\ wk' = Idle \/ wk'.mr.ext = q
                /\ \A p \in Ref \ {q} : (Exists(p)' => p # wk.mr.ext) /\ (p # wk.mr.ext => grid'[p] = grid[p])
                /\ grid'[q] \in Object
                /\ grid'[q].own = IF Stamped THEN "mine" ELSE grid[wk.mr.ext].own
<1>0. TypeInv /\ grid \in [Ref -> Object \cup {Absent}] /\ Absent \notin Object
  BY LifecycleConstants DEF WorkInv, TypeInv, TypeOK, Grids
<1>1. wk # Idle /\ wk.mr.ext \in Ref /\ wk.mr.val \in Val /\ wk.mr \in MRs
  BY <1>0, PutMoves, UnderWay
<1>2. CASE grid' = grid /\ wk' = Idle
  BY <1>2 DEF Shrinks, Exists
<1>3. CASE ~(grid' = grid /\ wk' = Idle)
  <2> DEFINE o == [val |-> wk.mr.val, own |-> IF Stamped THEN "mine" ELSE grid[wk.mr.ext].own]
  <2>1. PICK q \in Moves(wk.mr.ext) :
                   /\ Accepts /\ Exists(wk.mr.ext)
                   /\ Renamable => Named(wk.mr.key) \subseteq {wk.mr.ext}
                   /\ q \in Ref
                   /\ grid' = [grid EXCEPT ![wk.mr.ext] = Absent, ![q] = o]
                   /\ wk' = Idle \/ wk'.mr = [wk.mr EXCEPT !.ext = q]
    BY <1>0, <1>3, PutMoves
  <2>2. o \in Object /\ o.own = IF Stamped THEN "mine" ELSE grid[wk.mr.ext].own
    BY <1>0, <1>1, <2>1 DEF Exists, Object
  <2> HIDE DEF o
  <2>3. grid'[q] = o /\ \A p \in Ref \ {q} : grid'[p] = IF p = wk.mr.ext THEN Absent ELSE grid[p]
    BY <1>0, <1>1, <2>1
  <2>4. wk' = Idle \/ wk'.mr.ext = q
    BY <1>1, <2>1 DEF MRs
  <2>5. \A p \in Ref \ {q} : (Exists(p)' => p # wk.mr.ext) /\ (p # wk.mr.ext => grid'[p] = grid[p])
    BY <2>3 DEF Exists
  <2> QED BY <1>1, <2>1, <2>2, <2>3, <2>4, <2>5
<1> QED BY <1>2, <1>3

\* Nothing but a POST makes an object, where there is none.
LEMMA MineEmpty ==
    ASSUME WorkInv, [Next]_vars, ~Post, ~Put, Mine = {}
    PROVE  Mine' = {}
<1>1. TypeInv
  BY DEF WorkInv
<1> QED BY <1>1, GridMoves, ShrinksMine, RenamesMine

\* Once the search that cannot miss it has missed it, there is no object.
LEMMA DecideAbsent ==
    ASSUME WorkInv, OrphanInv, ~Guarded, Decide, wk.how = "none"
    PROVE  Mine = {}
<1>0. TypeInv /\ Shaped(wk.todo)
  BY DEF WorkInv
<1>1. Due("decide") /\ wk # Idle /\ Head(wk.todo) = "decide"
  BY <1>0, DecideOn
<1>2. ~Due(Proof)
  BY <1>0, <1>1, LastStep DEF Proof
<1> QED BY <1>1, <1>2 DEF OrphanInv

LEMMA GivenUpNext ==
    ASSUME WorkInv, OrphanInv, ~Guarded, [Next]_vars, Due("post")' \/ Due("unfinalize")'
    PROVE  Mine' = {}
<1>0. TypeInv /\ Shaped(wk.todo)
  BY DEF WorkInv
<1>1. wk' # Idle
  BY DEF Due, Among, Idle
<1>2. ~Post
  <2> SUFFICES ASSUME Post PROVE FALSE
    OBVIOUS
  <2>1. wk # Idle /\ Head(wk.todo) = "post" /\ Due("post") /\ wk'.todo = Tail(wk.todo)
    BY <1>0, <1>1, PostOn DEF NextStep
  <2>2. wk.todo \in Seq(Steps) /\ wk.todo # <<>> /\ Tail(wk.todo) \in Seq(Steps)
        /\ Suffix(Tail(wk.todo), wk.todo)
    BY <1>0, <2>1, UnderWay
  <2>3. ~Due("post")'
    BY <2>1, <2>2, NotLeft DEF OrphanInv, Due
  <2>4. wk.todo \in Seq({"finalizer", "pending"} \cup CreateSteps)
    BY <1>0, <2>1 DEF Shaped, Due
  <2>5. wk'.todo \in Seq({"finalizer", "pending"} \cup CreateSteps)
    BY <2>1, <2>2, <2>4, SuffixSeq
  <2>6. ~Due("unfinalize")'
    BY <2>5, AmongSeq DEF Due, CreateSteps
  <2> QED BY <2>3, <2>6
<1>3. ~Put
  <2> SUFFICES ASSUME Put PROVE FALSE
    OBVIOUS
  <2>1. wk # Idle /\ Due("put") /\ wk'.todo = Tail(wk.todo)
    BY <1>0, <1>1, PutMoves DEF NextStep
  <2>2. wk.todo \in Seq(Steps) /\ wk.todo # <<>> /\ Tail(wk.todo) \in Seq(Steps)
        /\ Suffix(Tail(wk.todo), wk.todo)
    BY <1>0, <2>1, UnderWay
  <2>4. wk.todo \in Seq({"finalizer", "late"} \cup UpdateSteps)
    BY <1>0, <2>1 DEF Shaped, Due
  <2>5. wk'.todo \in Seq({"finalizer", "late"} \cup UpdateSteps)
    BY <2>1, <2>2, <2>4, SuffixSeq
  <2>6. ~Due("unfinalize")' /\ ~Due("post")'
    BY <2>5, AmongSeq DEF Due, UpdateSteps
  <2> QED BY <2>6
<1>4. Mine = {}
  <2>1. CASE wk' = wk \/ Outdated
    BY <2>1 DEF Outdated, OrphanInv, Due
  <2>2. ~Begin
    BY <1>0, BeginRequests
  <2>3. CASE Decide
    BY <1>0, <1>1, <2>3, DecideRequests, DecideAbsent
  <2>4. CASE Advances \/ Persists
    BY <2>4 DEF Advances, Persists, NextStep, Onward, OrphanInv
  <2> QED BY <1>0, <1>1, <2>1, <2>2, <2>3, <2>4, WorkMoves
<1> QED BY <1>2, <1>3, <1>4, MineEmpty

\* The search that has missed the object could not miss it.
LEMMA AbsentNext ==
    ASSUME WorkInv, SearchInv, OrphanInv, SearchesInOrder, ~Guarded, [Next]_vars,
           Due("decide")', wk'.how = "none", ~Due(Proof)'
    PROVE  Mine' = {}
<1>0. TypeInv /\ Shaped(wk.todo) /\ Copies /\ StartupTypeOK
  BY DEF WorkInv, TypeInv, TypeOK
<1>1. wk' # Idle
  BY DEF Due, Among, Idle
<1>2. Proof' = Proof
  BY SameTable
<1>3. wk # Idle
  <2> SUFFICES ASSUME wk = Idle PROVE FALSE
    OBVIOUS
  <2>1. Begin
    BY <1>0, <1>1, WorkMoves, AtDue DEF Outdated, Advances, Persists, Decide
  <2>2. wk'.todo = BeginProgram
    BY <1>0, <2>1, BeginTypes
  <2>3. Among(Proof, BeginProgram)
    BY <1>0, ProofObserved, BeginSteps
  <2> QED BY <1>2, <2>2, <2>3 DEF Due
<1>4. ~Decide
  BY <1>0, <1>1, DecideDue
<1>5. Due("decide")
  <2>1. CASE wk' = wk \/ Outdated
    BY <2>1 DEF Due, Outdated
  <2> QED BY <1>0, <1>1, <1>3, <1>4, <2>1, WorkMoves DEF Advances, Persists, NextStep, Onward, Begin
<1>6. ~Post /\ ~Put
  BY <1>0, <1>5, AtDue DEF Post, Put, Known, TypeInv
<1>7. SUFFICES Mine = {}
  BY <1>6, MineEmpty
<1>8. ASSUME ~Due(Proof), wk.how = "none" PROVE Mine = {}
  BY <1>5, <1>8 DEF OrphanInv
<1>9. CASE wk' = wk \/ Outdated
  <2>1. wk'.how = wk.how /\ wk'.todo = wk.todo
    BY <1>9 DEF Outdated, Kept3
  <2> QED BY <1>2, <1>8, <2>1 DEF Due
<1>10. ASSUME NextStep, Head(wk.todo) # Proof PROVE ~Due(Proof)
  BY <1>2, <1>10 DEF NextStep
<1>11. ASSUME Head(wk.todo) \in Lookups PROVE wk.how = "none"
  <2>1. Due(Head(wk.todo)) /\ Head(wk.todo) \in Steps
    BY <1>0, <1>3, UnderWay, HeadAmong DEF Due
  <2> QED BY <1>5, <1>11, <2>1 DEF SearchInv, Lookups
<1>12. CASE Passing \/ Persists
  <2>1. NextStep /\ wk'.how = wk.how
    BY <1>0, <1>1, <1>12, PassingOn DEF Persists, Kept3
  <2>2. Head(wk.todo) # Proof
    <3>1. CASE Passing
      BY <1>0, <1>1, <3>1, PassingOn DEF Proof
    <3>2. CASE Persists
      BY <3>2 DEF Persists, Proof
    <3> QED BY <1>12, <3>1, <3>2
  <2> QED BY <1>8, <1>10, <2>1, <2>2
<1>13. CASE Guard
  BY <1>0, <1>13, AtDue DEF Guard, SearchInv
<1>14. CASE ByRef \/ RefuseKey
  <2>1. NextStep /\ Head(wk.todo) \in Lookups /\ Head(wk.todo) # Proof
    BY <1>0, <1>1, <1>14, ByRefOn, RefuseKeyOn DEF Lookups, Proof
  <2> QED BY <1>8, <1>10, <1>11, <2>1
<1>15. CASE ByUID
  BY <1>0, <1>1, <1>15, ByUIDOn
<1>16. CASE ByKey
  <2>1. NextStep /\ Head(wk.todo) = "key" /\ Named(wk.mr.key) = {}
    BY <1>0, <1>1, <1>16, ByKeyOn
  <2>2. CASE Stamped
    BY <1>8, <1>10, <1>11, <2>1, <2>2 DEF Lookups, Proof
  <2>3. CASE ~Stamped
    <3>1. ~Renamable
      BY <1>0, <2>3, ProofObserved
    <3>2. Managed => \A r \in Mine : r.key = wk.mr.key
      BY <1>0, <1>3, <2>3, <3>1 DEF OrphanInv, Copies
    <3>3. \A r \in Mine : r \in Ref /\ Exists(r)
      BY DEF Mine
    <3>4. Managed => Mine = {}
      BY <2>1, <3>2, <3>3 DEF Named
    <3> QED BY <3>4 DEF OrphanInv
  <2> QED BY <2>2, <2>3
<1> QED
  BY <1>1, <1>3, <1>4, <1>6, <1>9, <1>12, <1>13, <1>14, <1>15, <1>16, GoesOn

LEMMA OwnedNext ==
    ASSUME WorkInv, OrphanInv, ~Guarded, [Next]_vars, Mine' # {}
    PROVE  Managed' /\ mr'.fin
<1>0. TypeInv /\ Shaped(wk.todo)
  BY DEF WorkInv
<1>1. CASE Post \/ Put
  <2>1. Managed /\ mr.fin
    BY <1>1, RequestFin DEF Post, Put
  <2>2. Lifts
    BY <1>0, <1>1, PostOn DEF Put, Lifts
  <2> QED BY <2>1, <2>2 DEF Lifts, Managed
<1>2. CASE ~Post /\ ~Put
  <2>1. Mine # {}
    BY <1>2, MineEmpty
  <2>2. ~RemoveFinalizer
    BY <1>0, <2>1, RemoveFinalizerOn DEF OrphanInv
  <2> QED BY <2>1, <2>2, FinStays DEF OrphanInv
<1> QED BY <1>1, <1>2

\* Where there are no stamps the object has the key of the resource, which is fixed.
LEMMA KeyedNext ==
    ASSUME WorkInv, OrphanInv, SearchesInOrder, ~Guarded, ~Stamped, [Next]_vars, Managed',
           NEW r \in Mine'
    PROVE  r.key = mr'.key
<1>0. TypeInv /\ Copies /\ StartupTypeOK
  BY DEF WorkInv, TypeInv, TypeOK
<1>1. ~Renamable
  BY <1>0, ProofObserved
<1>2. CASE Post
  <2>1. Managed /\ mr'.key = mr.key /\ wk # Idle /\ Due("post")
    BY <1>0, <1>2, RequestFin, PostOn, AtDue DEF Post, Lifts
  <2>2. wk.mr.key = mr'.key /\ Mine = {}
    BY <1>0, <1>1, <2>1 DEF Copies, OrphanInv
  <2>3. r = [key |-> wk.mr.key, turn |-> 0]
    BY <1>2, <2>2, PostMine, ShrinksMine
  <2> QED BY <2>2, <2>3
<1>3. CASE Put
  <2>1. Managed /\ mr' = mr
    BY <1>3, RequestFin DEF Put
  <2>2. \A p \in Mine : p.key = mr'.key
    BY <2>1 DEF OrphanInv
  <2>3. CASE Shrinks
    BY <2>2, <2>3, ShrinksMine
  <2>4. CASE ~Shrinks
    <3>1. PICK q \in Moves(wk.mr.ext) :
                /\ q \in Ref /\ wk.mr.ext \in Ref /\ Exists(wk.mr.ext)
                /\ \A p \in Ref \ {q} : (Exists(p)' => p # wk.mr.ext)
                                          /\ (p # wk.mr.ext => grid'[p] = grid[p])
                /\ grid'[q].own = IF Stamped THEN "mine" ELSE grid[wk.mr.ext].own
      BY <1>3, <2>4, PutMine
    <3>2. q.key = wk.mr.ext.key
      BY <1>1, <3>1 DEF Moves
    <3>3. r \in Ref /\ Exists(r)' /\ grid'[r].own = "mine"
      BY DEF Mine
    <3>4. CASE r = q
      <4>1. wk.mr.ext \in Mine
        BY <3>1, <3>3, <3>4 DEF Mine
      <4> QED BY <2>2, <3>2, <3>4, <4>1
    <3>5. CASE r # q
      <4>1. grid'[r] = grid[r]
        BY <3>1, <3>3, <3>5
      <4>2. r \in Mine
        BY <3>3, <4>1 DEF Mine, Exists
      <4> QED BY <2>2, <4>2
    <3> QED BY <3>4, <3>5
  <2> QED BY <2>3, <2>4
<1>4. CASE ~Post /\ ~Put
  <2>1. Shrinks
    BY <1>0, <1>4, GridMoves DEF Renames
  <2>2. r \in Mine
    BY <2>1, ShrinksMine
  <2>3. Managed
    BY <2>2 DEF OrphanInv
  <2> QED BY <1>1, <2>2, <2>3, KeyStays DEF OrphanInv
<1> QED BY <1>2, <1>3, <1>4

LEMMA OrphanNext ==
    ASSUME WorkInv, SearchInv, OrphanInv, SearchesInOrder, [Next]_vars
    PROVE  OrphanInv'
<1>1. NoneAfter({"post"}, {"post"}, wk'.todo)
  BY PostOnceNext DEF OrphanInv
<1>2. Due("post")' \/ Due("put")' => wk'.mr.fin \/ Due("finalizer")'
  BY RequestNext
<1>3. /\ Guarded' = Guarded /\ Stamped' = Stamped
  BY SameTable
<1>4. ASSUME ~Guarded
      PROVE  /\ Mine' # {} => Managed' /\ mr'.fin
             /\ Due("decide")' /\ wk'.how = "none" /\ ~Due(Proof)' => Mine' = {}
             /\ Due("post")' \/ Due("unfinalize")' => Mine' = {}
             /\ ~Stamped /\ Managed' => \A r \in Mine' : r.key = mr'.key
  BY <1>4, OwnedNext, AbsentNext, GivenUpNext, KeyedNext
<1> QED BY <1>1, <1>2, <1>3, <1>4 DEF OrphanInv

LEMMA OrphanInit == Init => SearchInv /\ OrphanInv
<1> SUFFICES ASSUME Init PROVE SearchInv /\ OrphanInv
  OBVIOUS
<1>1. wk = Idle /\ wk.todo = <<>> /\ mr = NoMR
  BY DEF Init, Idle
<1>2. \A x : ~Due(x)
  BY <1>1, NothingDue
<1>3. Mine = {}
  <2>1. StartupTypeOK
    BY TypeInit DEF TypeInv, TypeOK
  <2>2. subject.kind \in DOMAIN Kinds /\ grid \in Preexisting[subject.kind]
    BY <2>1, StartupConstants DEF StartupTypeOK, Init
  <2>3. \A r \in Ref : grid[r] # Absent => grid[r].own # "mine"
    BY <2>2, LifecycleConstants
  <2> QED BY <2>3 DEF Mine, Exists
<1>4. ~Managed
  BY <1>1 DEF Managed, NoMR
<1>5. NoneAfter({"post"}, {"post"}, wk.todo)
  BY <1>1 DEF NoneAfter
<1> QED BY <1>2, <1>3, <1>4, <1>5 DEF SearchInv, OrphanInv

LEMMA OrphanHolds ==
    ASSUME SearchesInOrder
    PROVE  Spec => [](WorkInv /\ SearchInv /\ OrphanInv)
<1>1. WorkInv /\ SearchInv /\ OrphanInv /\ [Next]_vars => SearchInv' /\ OrphanInv'
  BY SearchNext, OrphanNext
<1> QED BY <1>1, OrphanInit, WorkHolds, PTL DEF Spec

\* A resource that is gone has left no object behind, for every table that searches by
\* what it stamps, or by a key that cannot be edited: the finalizer comes off after a
\* search that could not miss the object, and an object is made under the finalizer alone.
THEOREM NoOrphanHolds == SearchesInOrder => (Spec => []NoOrphan)
<1> SUFFICES ASSUME SearchesInOrder PROVE Spec => []NoOrphan
  OBVIOUS
<1>1. OrphanInv => NoOrphan
  BY DEF OrphanInv, NoOrphan, Guarded, Managed
<1> QED BY <1>1, OrphanHolds, PTL

-----------------------------------------------------------------------------
(***************************************************************************)
(* No twin.                                                                *)
(***************************************************************************)
LEMMA UpdateNoneAfter ==
    ASSUME StartupTypeOK, NEW A, NEW B, NoneAfter(A, B, S.client.update),
           "finalizer" \notin A, "late" \notin A, NEW fin, NEW late, NEW same
    PROVE  NoneAfter(A, B, UpdateProgram(fin, late, same))
<1> DEFINE o == Optional(~fin, "finalizer")
           l == Optional(late, "late")
           u == IF same THEN <<>> ELSE S.client.update
<1>1. NoneAfter(A, B, u)
  <2>1. NoneAfter(A, B, <<>>)
    BY DEF NoneAfter
  <2> QED BY <2>1
<1>2. NoneAfter(A, B, o) /\ \A x \in A : ~Among(x, o)
  BY OptionalSingle, OptionalSteps
<1>3. NoneAfter(A, B, l) /\ \A x \in A : ~Among(x, l)
  BY OptionalSingle, OptionalSteps
<1>4. o \in Seq({"finalizer"}) /\ u \in Seq(UpdateSteps) /\ l \in Seq({"late"})
  BY OptionalSteps, SubjectPrograms
<1>5. UpdateProgram(fin, late, same) = (o \o l) \o u
  BY DEF UpdateProgram
<1> HIDE DEF o, l, u
<1>6. o \in Seq(Steps) /\ u \in Seq(Steps) /\ l \in Seq(Steps)
  BY <1>4, AllSteps, SeqMonotonic
<1>7. o \o l \in Seq(Steps)
  BY <1>6
<1>8. NoneAfter(A, B, o \o l)
  BY <1>2, <1>3, <1>6, ConcatNoneAfter, Zenon
<1>9. \A x \in A : ~Among(x, o \o l)
  BY <1>2, <1>3, <1>6, AmongConcat, Zenon
<1> QED BY <1>1, <1>5, <1>6, <1>7, <1>8, <1>9, ConcatNoneAfter, Zenon

LEMMA PutOnceUpdate ==
    ASSUME StartupTypeOK, SearchesInOrder, NEW fin, NEW late, NEW same
    PROVE  NoneAfter({"put"}, {"put"}, UpdateProgram(fin, late, same))
<1>1. NoneAfter({"put"}, {"put"}, S.client.update)
  BY DEF SearchesInOrder, SearchesFirst, StartupTypeOK, S, K
<1>2. "finalizer" \notin {"put"} /\ "late" \notin {"put"}
  OBVIOUS
<1> QED BY <1>1, <1>2, UpdateNoneAfter

LEMMA PutOnceNext ==
    ASSUME WorkInv, SearchesInOrder, NoneAfter({"put"}, {"put"}, wk.todo), [Next]_vars
    PROVE  NoneAfter({"put"}, {"put"}, wk'.todo)
<1>0. TypeInv /\ StartupTypeOK /\ Shaped(wk.todo)
  BY DEF WorkInv, TypeInv, TypeOK
<1>1. ASSUME ~Due("put")' PROVE NoneAfter({"put"}, {"put"}, wk'.todo)
  BY <1>1 DEF NoneAfter, Due, Among
<1>2. CASE wk' = Idle
  BY <1>1, <1>2 DEF Due, Among, Idle
<1>3. CASE wk' = wk \/ Outdated
  BY <1>3 DEF Outdated
<1>4. CASE Begin
  BY <1>0, <1>1, <1>4, BeginRequests
<1>5. CASE Decide /\ wk' # Idle
  <2>1. \/ wk'.todo = UpdateProgram(wk.mr.fin, Filled(wk) # wk.mr, UpToDate(wk))
        \/ wk'.todo = <<"unfinalize">>
        \/ wk'.todo = CreateProgram(wk.mr.fin)
        \/ wk'.todo = S.client.delete
    BY <1>0, <1>5, DecideOn DEF Left
  <2>2. CASE wk'.todo = UpdateProgram(wk.mr.fin, Filled(wk) # wk.mr, UpToDate(wk))
    BY <1>0, <2>2, PutOnceUpdate
  <2>3. CASE wk'.todo = <<"unfinalize">>
    BY <2>3, Single
  <2>4. CASE wk'.todo = CreateProgram(wk.mr.fin)
    <3>1. wk'.todo \in Seq({"finalizer", "pending"} \cup CreateSteps)
      BY <1>0, <2>4, CreateProgramSteps
    <3> QED BY <3>1, NoneAfterAbsent DEF CreateSteps
  <2>5. CASE wk'.todo = S.client.delete
    <3>1. wk'.todo \in Seq(DeleteSteps)
      BY <1>0, <2>5, SubjectPrograms
    <3> QED BY <3>1, NoneAfterAbsent DEF DeleteSteps, Lookups
  <2> QED BY <2>1, <2>2, <2>3, <2>4, <2>5
<1>6. CASE Advances \/ Persists
  <2>1. wk # Idle /\ wk' \in Works /\ Suffix(wk'.todo, wk.todo)
    BY <1>6 DEF Advances, Persists, NextStep, Onward
  <2>2. wk.todo \in Seq(Steps) /\ wk'.todo \in Seq(Steps)
    BY <1>0, <2>1, UnderWay DEF Works
  <2> QED BY <2>1, <2>2, SuffixNoneAfter
<1> QED BY <1>0, <1>2, <1>3, <1>4, <1>5, <1>6, WorkMoves

\* Whoever stamps does not search by the key.
LEMMA KeyUnstamped ==
    ASSUME StartupTypeOK, SearchesInOrder,
           Among("key", S.client.observe) \/ Among("key", S.client.delete)
    PROVE  ~Stamped
<1>1. S.client.observe \in Seq(Steps) /\ S.client.delete \in Seq(Steps)
  <2>1. S.client.observe \in Seq(ObserveSteps) /\ S.client.delete \in Seq(DeleteSteps)
    BY SubjectPrograms
  <2> QED BY <2>1, AllSteps, SeqMonotonic
<1>2. Among("key", S.client.observe \o S.client.delete)
  BY <1>1, AmongConcat
<1>3. SearchesFirst(S, subject.kind \in FixedKeys)
  BY DEF SearchesInOrder, StartupTypeOK, S, K
<1> QED BY <1>2, <1>3 DEF SearchesFirst, Stamped

LEMMA KeyNext ==
    ASSUME WorkInv, SearchesInOrder, Due("key") => ~Stamped, [Next]_vars, Due("key")'
    PROVE  ~Stamped
<1>0. TypeInv /\ StartupTypeOK /\ Shaped(wk.todo) /\ wk' # Idle
  BY DEF WorkInv, TypeInv, TypeOK, Due, Among, Idle
<1>1. ASSUME Among("key", S.client.observe) \/ Among("key", S.client.delete) PROVE ~Stamped
  BY <1>0, <1>1, KeyUnstamped
<1>2. CASE wk' = wk \/ Outdated
  BY <1>2 DEF Outdated, Due
<1>3. CASE Begin
  <2>1. Among("key", BeginProgram)
    BY <1>0, <1>3, BeginTypes DEF Due
  <2>2. S.connect \in Seq(ConnectSteps)
    BY <1>0, SubjectPrograms
  <2>3. ~Among("key", S.connect)
    BY <2>2, AmongSeq DEF ConnectSteps
  <2> QED BY <1>0, <1>1, <2>1, <2>3, BeginSteps
<1>4. CASE Decide
  <2>1. \/ wk'.todo = UpdateProgram(wk.mr.fin, Filled(wk) # wk.mr, UpToDate(wk))
        \/ wk'.todo = <<"unfinalize">>
        \/ wk'.todo = CreateProgram(wk.mr.fin)
        \/ wk'.todo = S.client.delete
    BY <1>0, <1>4, DecideOn DEF Left
  <2>2. wk'.todo # UpdateProgram(wk.mr.fin, Filled(wk) # wk.mr, UpToDate(wk))
    <3> SUFFICES ASSUME wk'.todo = UpdateProgram(wk.mr.fin, Filled(wk) # wk.mr, UpToDate(wk))
                 PROVE  FALSE
      OBVIOUS
    <3>1. wk'.todo \in Seq({"finalizer", "late"} \cup UpdateSteps)
      BY <1>0, UpdateProgramSteps
    <3> QED BY <3>1, AmongSeq DEF UpdateSteps, Due
  <2>3. wk'.todo # <<"unfinalize">>
    BY Single DEF Due
  <2>4. wk'.todo # CreateProgram(wk.mr.fin)
    <3> SUFFICES ASSUME wk'.todo = CreateProgram(wk.mr.fin) PROVE FALSE
      OBVIOUS
    <3>1. wk'.todo \in Seq({"finalizer", "pending"} \cup CreateSteps)
      BY <1>0, CreateProgramSteps
    <3> QED BY <3>1, AmongSeq DEF CreateSteps, Due
  <2> QED BY <1>1, <2>1, <2>2, <2>3, <2>4 DEF Due
<1>5. CASE Advances \/ Persists
  BY <1>5 DEF Advances, Persists, NextStep, Onward
<1> QED BY <1>0, <1>2, <1>3, <1>4, <1>5, WorkMoves

AllInv == WorkInv /\ SearchInv /\ OrphanInv /\ TwinInv

\* A reconcile that is to make or change an object does nothing else.
LEMMA RequestAlone ==
    ASSUME WorkInv
    PROVE  /\ Due("put") => \A x \in Lookups \cup {"decide", "post", "delete", "wellKnown"} : ~Due(x)
           /\ Due("post") =>
                \A x \in Lookups \cup {"decide", "put", "delete", "wellKnown", "unfinalize"} : ~Due(x)
<1>1. ASSUME Due("put"), NEW x \in Lookups \cup {"decide", "post", "delete", "wellKnown"} PROVE ~Due(x)
  <2>1. wk.todo \in Seq({"finalizer", "late"} \cup UpdateSteps)
    BY <1>1 DEF WorkInv, Shaped, Due
  <2> QED BY <2>1, AmongSeq DEF Due, UpdateSteps, Lookups
<1>2. ASSUME Due("post"),
             NEW x \in Lookups \cup {"decide", "put", "delete", "wellKnown", "unfinalize"}
      PROVE  ~Due(x)
  <2>1. wk.todo \in Seq({"finalizer", "pending"} \cup CreateSteps)
    BY <1>2 DEF WorkInv, Shaped, Due
  <2> QED BY <2>1, AmongSeq DEF Due, CreateSteps, Lookups
<1> QED BY <1>1, <1>2

\* Where the reference on record comes from.
LEMMA ExtMoves ==
    ASSUME WorkInv, [Next]_vars, Managed'
    PROVE  \/ NewMR
           \/ Managed /\ mr'.ext = mr.ext
           \/ Managed /\ wk # Idle /\ mr'.ext = wk.mr.ext /\ (wk' = Idle \/ Persists)
<1>0. TypeInv /\ Copies /\ mr \in MRs \cup {NoMR, Gone}
  BY DEF WorkInv, TypeInv, TypeOK
<1>1. CASE Lifts
  BY <1>1 DEF Lifts, Managed
<1>2. CASE EditMR \/ DeleteMR
  <2>1. mr.phase = "live"
    BY <1>2 DEF EditMR, DeleteMR
  <2>2. mr \in MRs /\ Managed
    BY <1>0, <2>1 DEF NoMR, Gone, Managed
  <2>3. mr' = Gone \/ mr'.ext = mr.ext
    <3>1. CASE EditMR
      <4>1. \E x, v : mr' = [mr EXCEPT !.key = x, !.val = v, !.bad = FALSE]
        BY <3>1 DEF EditMR
      <4> QED BY <2>2, <4>1 DEF MRs
    <3>2. CASE DeleteMR
      BY <2>2, <3>2 DEF DeleteMR, MRs
    <3> QED BY <1>2, <3>1, <3>2
  <2> QED BY <2>2, <2>3 DEF Managed, Gone
<1>3. CASE AddFinalizer /\ mr' # mr
  <2>1. wk # Idle /\ wk.mr \in MRs
    BY <1>0, <1>3, AtDue, UnderWay DEF AddFinalizer
  <2>2. wk.fresh /\ mr' = [wk.mr EXCEPT !.fin = TRUE]
    BY <1>3 DEF AddFinalizer, Persist
  <2>3. mr'.ext = wk.mr.ext
    BY <2>1, <2>2 DEF MRs
  <2> QED BY <1>0, <1>3, <2>1, <2>2, <2>3, SavesOn DEF Copies
<1>4. CASE Save /\ mr' # mr
  BY <1>0, <1>4, SaveMR, SavesOn
<1>5. CASE RemoveFinalizer /\ mr' # mr
  BY <1>5 DEF RemoveFinalizer, Persist, Gone, Managed
<1>6. CASE Name /\ mr' # mr
  BY <1>0, <1>6, NameMR
<1>7. mr' = mr => Lifts
  BY DEF Lifts
<1> QED BY <1>0, <1>1, <1>2, <1>3, <1>4, <1>5, <1>6, <1>7, LiftsElse

\* What changes the reference that the reconcile goes by.
LEMMA CopyMoves ==
    ASSUME WorkInv, [Next]_vars, wk # Idle, wk' # Idle
    PROVE  wk'.mr.ext = wk.mr.ext \/ Decide \/ Post \/ Put
<1>0. TypeInv
  BY DEF WorkInv
<1>1. CASE wk' = wk \/ Outdated \/ Persists
  BY <1>1 DEF Outdated, Persists
<1>2. CASE Passing \/ Guard
  BY <1>0, <1>2, PassingOn, GuardOn DEF Copied
<1>3. CASE ByRef \/ ByUID \/ ByKey \/ RefuseKey
  BY <1>0, <1>3, ByRefOn, ByUIDOn, ByKeyOn, RefuseKeyOn DEF Copied
<1> QED BY <1>1, <1>2, <1>3, GoesOn

\* A reconcile that goes on and is neither decided nor to begin has done so in one of
\* these ways.
LEMMA Continues ==
    ASSUME WorkInv, [Next]_vars, wk' # Idle, ~Begin, ~Decide
    PROVE  /\ wk # Idle
           /\ (wk' = wk /\ (mr' = mr \/ NewMR)) \/ Outdated \/ Advances \/ Persists
           /\ \A x : Due(x)' => Due(x)
<1>0. TypeInv /\ Shaped(wk.todo)
  BY DEF WorkInv
<1>1. (wk' = wk /\ (mr' = mr \/ NewMR)) \/ Outdated \/ Advances \/ Persists
  BY <1>0, WorkMoves
<1>2. wk # Idle
  BY <1>1 DEF Outdated, Advances, Persists
<1>3. \A x : Due(x)' => Due(x)
  <2>1. CASE wk' = wk \/ Outdated
    BY <2>1 DEF Outdated, Due
  <2> QED BY <1>1, <2>1 DEF Advances, Persists, NextStep, Onward
<1> QED BY <1>1, <1>2, <1>3

LEMMA PutRefers ==
    ASSUME WorkInv, TwinInv, [Next]_vars, Due("put")'
    PROVE  wk'.how # "none" /\ wk'.mr.ext = wk'.at
<1>0. TypeInv /\ Shaped(wk.todo) /\ wk' # Idle
  BY DEF WorkInv, Due, Among, Idle
<1>1. CASE Begin
  BY <1>0, <1>1, BeginRequests
<1>2. CASE Decide
  BY <1>0, <1>2, DecideRequests, DecideCopies
<1>3. CASE ~Begin /\ ~Decide
  <2>1. /\ wk # Idle /\ Due("put")
        /\ wk' = wk \/ Outdated \/ Advances \/ Persists
    BY <1>0, <1>3, Continues
  <2>2. Due(Head(wk.todo))
    BY <1>0, <2>1, UnderWay, HeadAmong DEF Due
  <2>3. Head(wk.todo) \notin Lookups
    BY <2>1, <2>2, RequestAlone
  <2>4. wk'.how = wk.how /\ wk'.at = wk.at
    BY <2>1, <2>3, SearchMoves DEF Outdated, Kept3
  <2>5. ~Post
    BY <1>0, <2>1, RequestAlone, AtDue DEF Post
  <2>6. ~Put
    <3> SUFFICES ASSUME Put PROVE FALSE
      OBVIOUS
    <3>1. Head(wk.todo) = "put" /\ wk'.todo = Tail(wk.todo)
      BY <1>0, PutMoves DEF NextStep
    <3>2. wk.todo \in Seq(Steps) /\ wk.todo # <<>>
      BY <1>0, <2>1, UnderWay
    <3> QED BY <3>1, <3>2, NotLeft DEF TwinInv, Due
  <2> QED BY <1>0, <1>3, <2>1, <2>4, <2>5, <2>6, CopyMoves DEF TwinInv
<1> QED BY <1>1, <1>2, <1>3

LEMMA DecideExt ==
    ASSUME WorkInv, TwinInv, [Next]_vars, Due("decide")', Managed'
    PROVE  mr'.ext = wk'.mr.ext
<1>0. TypeInv /\ Copies /\ wk' # Idle
  BY DEF WorkInv, Due, Among, Idle
<1>1. CASE Begin
  BY <1>0, <1>1, BeginTypes DEF Begin
<1>2. ~Decide
  BY <1>0, DecideDue
<1>3. CASE ~Begin
  <2>1. wk # Idle /\ Due("decide")
    BY <1>0, <1>2, <1>3, Continues
  <2>2. ~Post /\ ~Put
    BY <1>0, <2>1, RequestAlone, AtDue DEF Post, Put
  <2>3. wk'.mr.ext = wk.mr.ext
    BY <1>0, <1>2, <2>1, <2>2, CopyMoves
  <2>4. ~NewMR
    BY <1>0, <2>1 DEF NewMR, Copies
  <2> QED BY <2>1, <2>3, <2>4, ExtMoves DEF TwinInv
<1> QED BY <1>1, <1>3

\* What a request leaves of the objects, where nobody renames them.
LEMMA Unclaimed ==
    ASSUME WorkInv, [Next]_vars, Stamped, "rename" \notin AdminOps
    PROVE  /\ Unowned' \subseteq Unowned
           /\ Put /\ wk'.mr.ext \in Unowned' => wk' = Idle
           /\ Post /\ wk'.mr.ext \in Unowned' => wk' = Idle
           /\ Put /\ wk.mr.ext \in Unowned' => Shrinks
<1>0. TypeInv
  BY DEF WorkInv
<1>1. CASE Shrinks /\ ~Post /\ ~Put
  BY <1>1, ShrinksMine
<1>2. CASE Post
  <2>1. CASE wk' = Idle /\ Shrinks
    BY <1>2, <2>1, ShrinksMine DEF Post, Put, At
  <2>2. CASE ~(wk' = Idle /\ Shrinks)
    <3> DEFINE r == [key |-> wk.mr.key, turn |-> 0]
    <3>1. Unowned' \subseteq Unowned /\ r \notin Unowned'
      <4>1. Unowned' \subseteq Unowned /\ r \in Ref /\ grid'[r].own = "mine"
        BY <1>2, <2>2, PostMine
      <4> QED BY <4>1 DEF Unowned
    <3>2. wk' = Idle \/ wk'.mr.ext = r
      <4>1. wk.mr \in MRs /\ r \in Ref
        BY <1>0, <1>2, <2>2, PostOn, PostMine
      <4>2. wk' = Idle \/ wk'.mr = [wk.mr EXCEPT !.ext = r]
        BY <1>0, <1>2, PostOn
      <4> HIDE DEF r
      <4> QED BY <4>1, <4>2 DEF MRs
    <3>3. ~Put
      BY <1>2 DEF Post, Put, At
    <3> QED BY <3>1, <3>2, <3>3
  <2> QED BY <2>1, <2>2
<1>3. CASE Put
  <2>1. ~Post
    BY <1>3 DEF Post, Put, At
  <2>2. CASE wk' = Idle /\ Shrinks
    BY <2>1, <2>2, ShrinksMine
  <2>3. CASE ~(wk' = Idle /\ Shrinks)
    <3>1. PICK q \in Moves(wk.mr.ext) :
                /\ q \in Ref /\ wk.mr.ext \in Ref
                /\ wk' = Idle \/ wk'.mr.ext = q
                /\ \A p \in Ref \ {q} : (Exists(p)' => p # wk.mr.ext)
                                          /\ (p # wk.mr.ext => grid'[p] = grid[p])
                /\ grid'[q].own = "mine"
      BY <1>3, <2>3, PutMine
    <3>2. q \notin Unowned'
      BY <3>1 DEF Unowned
    <3>3. \A p \in Unowned' : p # wk.mr.ext /\ grid'[p] = grid[p]
      BY <3>1, <3>2 DEF Unowned
    <3>4. Unowned' \subseteq Unowned
      BY <3>3 DEF Unowned, Exists
    <3> QED BY <2>1, <3>1, <3>2, <3>3, <3>4
  <2> QED BY <2>2, <2>3
<1>4. ~Renames
  BY DEF Renames
<1> QED BY <1>0, <1>1, <1>2, <1>3, <1>4, GridMoves

\* An object of the resource stays its own.
LEMMA MineKept ==
    ASSUME WorkInv, [Next]_vars, Stamped, "rename" \notin AdminOps,
           NEW p \in Ref, Exists(p)', Exists(p) => p \in Mine
    PROVE  p \in Mine'
<1>0. TypeInv
  BY DEF WorkInv
<1>1. SUFFICES grid'[p].own = "mine"
  BY DEF Mine
<1>2. ASSUME grid'[p] = grid[p] PROVE grid'[p].own = "mine"
  BY <1>2 DEF Exists, Mine
<1>3. CASE Shrinks
  BY <1>3 DEF Shrinks, Mine
<1>4. CASE Post /\ ~Shrinks
  BY <1>2, <1>4, PostMine
<1>5. CASE Put /\ ~Shrinks
  <2>1. PICK q \in Moves(wk.mr.ext) :
                /\ q \in Ref
                /\ \A s \in Ref \ {q} : (Exists(s)' => s # wk.mr.ext)
                                          /\ (s # wk.mr.ext => grid'[s] = grid[s])
                /\ grid'[q].own = "mine"
    BY <1>5, PutMine
  <2> QED BY <1>2, <2>1
<1> QED BY <1>0, <1>3, <1>4, <1>5, GridMoves DEF Renames

\* A PUT is sent to the one object of the resource, or to one that nobody has stamped
\* when there is none.
LEMMA PutSole ==
    ASSUME AllInv, ~Guarded, Put, wk.mr.ext \in Ref, Exists(wk.mr.ext)
    PROVE  \/ wk.mr.ext \in Mine /\ Mine = {wk.mr.ext}
           \/ ~Stamped /\ wk.mr.ext \notin Mine
           \/ Stamped /\ Mine = {} /\ mr.ext = wk.mr.ext /\ wk.mr.ext \in Unowned
<1>0. TypeInv
  BY DEF AllInv, WorkInv
<1>1. wk # Idle /\ Due("put") /\ wk.mr.ext = wk.at /\ wk.how # "none" /\ wk \in Works
  BY <1>0, AtDue, UnderWay DEF Put, AllInv, TwinInv
<1>2. wk.how \in {"found", "adopted", "recovered"}
  BY <1>1 DEF Works
<1>3. CASE wk.mr.ext \in Mine
  BY <1>3 DEF AllInv, TwinInv
<1>4. CASE Stamped /\ wk.mr.ext \notin Mine
  <2>1. wk.mr.ext \in Unowned
    BY <1>1, <1>2, <1>4 DEF AllInv, TwinInv
  <2>2. Managed
    BY RequestFin DEF AllInv, Put
  <2>3. mr.ext = wk.mr.ext
    BY <1>1, <1>4, <2>1, <2>2 DEF AllInv, TwinInv
  <2>4. Mine = {}
    BY <1>4, <2>1, <2>2, <2>3 DEF AllInv, TwinInv
  <2> QED BY <1>4, <2>1, <2>3, <2>4
<1> QED BY <1>3, <1>4

LEMMA OneNext ==
    ASSUME AllInv, ~Guarded, [Next]_vars, "rename" \notin AdminOps, NEW r \in Mine', NEW s \in Mine'
    PROVE  r = s
<1>0. TypeInv /\ WorkInv
  BY DEF AllInv, WorkInv
<1>1. CASE Shrinks
  BY <1>1, ShrinksMine DEF AllInv, TwinInv
<1>2. CASE Post /\ ~Shrinks
  <2>1. Mine = {}
    BY <1>0, <1>2, AtDue DEF Post, AllInv, OrphanInv
  <2> QED BY <1>0, <1>2, <2>1, PostMine
<1>3. CASE Put /\ ~Shrinks
  <2>1. PICK q \in Moves(wk.mr.ext) :
                /\ q \in Ref /\ wk.mr.ext \in Ref /\ Exists(wk.mr.ext)
                /\ \A p \in Ref \ {q} : (Exists(p)' => p # wk.mr.ext)
                                          /\ (p # wk.mr.ext => grid'[p] = grid[p])
                /\ grid'[q].own = IF Stamped THEN "mine" ELSE grid[wk.mr.ext].own
    BY <1>0, <1>3, PutMine
  <2>2. \A p \in Mine' : p = q \/ (p \in Mine /\ p # wk.mr.ext)
    BY <2>1 DEF Mine, Exists
  <2>3. CASE Mine \subseteq {wk.mr.ext}
    BY <2>2, <2>3
  <2>4. CASE ~Stamped /\ wk.mr.ext \notin Mine
    <3>1. q \notin Mine'
      BY <2>1, <2>4 DEF Mine
    <3> QED BY <2>2, <3>1 DEF AllInv, TwinInv
  <2> QED BY <1>3, <2>1, <2>3, <2>4, PutSole
<1> QED BY <1>0, <1>1, <1>2, <1>3, GridMoves DEF Renames

LEMMA ExtNext ==
    ASSUME AllInv, ~Guarded, Stamped, [Next]_vars, "rename" \notin AdminOps, Managed',
           mr'.ext \in Unowned'
    PROVE  Mine' = {}
<1>0. TypeInv /\ WorkInv
  BY DEF AllInv, WorkInv
<1>1. mr'.ext \in Unowned
  BY <1>0, Unclaimed
<1>2. CASE Post
  <2>1. Managed /\ mr'.ext = mr.ext /\ Due("post")
    BY <1>0, <1>2, RequestFin, PostOn, AtDue DEF Post, AllInv, Lifts
  <2> QED BY <1>1, <2>1 DEF AllInv, TwinInv
<1>3. CASE Put
  <2>1. Managed /\ mr' = mr
    BY <1>3, RequestFin DEF Put, AllInv
  <2>2. Mine = {}
    BY <1>1, <2>1 DEF AllInv, TwinInv
  <2>3. CASE Shrinks
    BY <2>2, <2>3, ShrinksMine
  <2>4. CASE ~Shrinks
    <3>1. wk.mr.ext \in Ref /\ Exists(wk.mr.ext)
      BY <1>0, <1>3, <2>4, PutMine
    <3>2. mr.ext = wk.mr.ext
      BY <1>3, <2>2, <3>1, PutSole
    <3> QED BY <1>0, <1>3, <2>1, <2>4, <3>2, Unclaimed
  <2> QED BY <2>3, <2>4
<1>4. CASE ~Post /\ ~Put
  <2>1. SUFFICES Mine = {}
    BY <1>0, <1>4, MineEmpty
  <2>2. CASE NewMR
    <3>1. ~Managed
      BY <2>2 DEF NewMR, NoMR, Managed
    <3> QED BY <3>1 DEF AllInv, OrphanInv
  <2>3. CASE Managed /\ mr'.ext = mr.ext
    BY <1>1, <2>3 DEF AllInv, TwinInv
  <2>4. CASE Managed /\ wk # Idle /\ mr'.ext = wk.mr.ext
    BY <1>1, <2>4 DEF AllInv, TwinInv
  <2> QED BY <1>0, <2>2, <2>3, <2>4, ExtMoves
<1> QED BY <1>2, <1>3, <1>4

LEMMA WorkExtNext ==
    ASSUME AllInv, ~Guarded, Stamped, [Next]_vars, "rename" \notin AdminOps, Managed', wk' # Idle,
           wk'.mr.ext \in Unowned'
    PROVE  mr'.ext = wk'.mr.ext
<1>0. TypeInv /\ WorkInv /\ Copies /\ Unowned' \subseteq Unowned
  BY Unclaimed DEF AllInv, WorkInv
<1>1. CASE Begin
  BY <1>0, <1>1, BeginTypes DEF Begin
<1>2. ~Post /\ ~Put
  BY <1>0, Unclaimed
<1>3. CASE wk # Idle
  <2>1. ~NewMR
    BY <1>0, <1>3 DEF NewMR, Copies
  <2>2. CASE Persists
    BY <2>2 DEF Persists
  <2>3. CASE ~Persists
    <3>1. Managed /\ mr'.ext = mr.ext
      BY <1>0, <2>1, <2>3, ExtMoves
    <3>2. wk'.mr.ext = wk.mr.ext
      <4>1. CASE Decide
        <5>1. /\ Due("decide") /\ wk \in Works
              /\ wk.how # "none" => wk'.mr.ext = wk.at /\ wk.at \in Ref
              /\ wk.how = "none" => wk'.mr.ext = wk.mr.ext
              /\ wk.how \in {"found", "adopted"} => wk.mr.ext = wk.at
          BY <1>0, <1>3, <4>1, DecideOn, DecideCopies, UnderWay DEF TypeInv, Known
        <5>2. CASE wk.how = "recovered"
          <6>1. wk.at \in Unowned
            BY <1>0, <5>1, <5>2
          <6>2. wk.at \in Mine
            BY <1>3, <5>1, <5>2, <6>1 DEF AllInv, TwinInv, Unowned
          <6> QED BY <6>1, <6>2 DEF Mine, Unowned
        <5> QED BY <5>1, <5>2 DEF Works
      <4> QED BY <1>0, <1>2, <1>3, <4>1, CopyMoves
    <3> QED BY <1>0, <1>3, <3>1, <3>2 DEF AllInv, TwinInv
  <2> QED BY <2>2, <2>3
<1>4. CASE wk = Idle /\ ~Begin
  <2>1. ~Decide
    BY <1>0, <1>4, AtDue DEF Decide
  <2> QED BY <1>0, <1>4, <2>1, Continues
<1> QED BY <1>1, <1>3, <1>4

\* As long as Observe has found nothing, it looks on.
LEMMA StillSearching ==
    ASSUME WorkInv, SearchInv, [Next]_vars, ~Guarded, ~Begin, Due("decide")', wk'.how = "none"
    PROVE  /\ wk # Idle /\ wk' # Idle /\ Due("decide") /\ ~Decide /\ ~Post /\ ~Put
           /\ wk.how = "none"
           /\ NextStep \/ wk'.todo = wk.todo
<1>0. TypeInv /\ wk' # Idle
  BY DEF WorkInv, Due, Among, Idle
<1>1. ~Decide
  BY <1>0, DecideDue
<1>2. wk # Idle /\ Due("decide")
  BY <1>0, <1>1, Continues
<1>3. ~Post /\ ~Put
  BY <1>0, <1>2, RequestAlone, AtDue DEF Post, Put
<1>4. ASSUME Head(wk.todo) \in Lookups PROVE wk.how = "none"
  <2>1. Due(Head(wk.todo)) /\ Head(wk.todo) \in Steps
    BY <1>0, <1>2, UnderWay, HeadAmong DEF Due
  <2> QED BY <1>2, <1>4, <2>1 DEF SearchInv, Lookups
<1>5. CASE wk' = wk \/ Outdated
  BY <1>0, <1>1, <1>2, <1>3, <1>5 DEF Outdated, Kept3
<1>6. CASE Passing \/ Persists
  BY <1>0, <1>1, <1>2, <1>3, <1>6, PassingOn DEF Persists, Kept3
<1>7. CASE Guard
  BY <1>0, <1>7, AtDue DEF Guard, SearchInv
<1>8. CASE ByRef \/ ByUID \/ ByKey \/ RefuseKey
  <2>1. NextStep /\ Head(wk.todo) \in Lookups
    BY <1>0, <1>8, ByRefOn, ByUIDOn, ByKeyOn, RefuseKeyOn DEF Lookups
  <2> QED BY <1>0, <1>1, <1>2, <1>3, <1>4, <2>1
<1> QED BY <1>0, <1>1, <1>2, <1>3, <1>5, <1>6, <1>7, <1>8, GoesOn

\* The reference is looked at before the object is taken for absent.
LEMMA RefNext ==
    ASSUME AllInv, SearchesInOrder, ~Guarded, Stamped, [Next]_vars, "rename" \notin AdminOps, Managed',
           Due("decide")', wk'.how = "none", ~Due("ref")'
    PROVE  mr'.ext \notin Unowned'
<1>0. TypeInv /\ WorkInv /\ SearchInv /\ Copies /\ StartupTypeOK /\ Unowned' \subseteq Unowned
  BY Unclaimed DEF AllInv, WorkInv, TypeInv, TypeOK
<1>1. ~Begin
  <2> SUFFICES ASSUME Begin PROVE FALSE
    OBVIOUS
  <2>1. Among("ref", S.client.observe)
    <3>1. SearchesFirst(S, subject.kind \in FixedKeys)
      BY <1>0 DEF SearchesInOrder, StartupTypeOK, S, K
    <3>2. ~Among("key", S.client.observe)
      BY <1>0, KeyUnstamped
    <3> QED BY <3>1, <3>2 DEF SearchesFirst, Guarded
  <2>2. Among("ref", BeginProgram) /\ wk'.todo = BeginProgram
    BY <1>0, <2>1, BeginSteps, BeginTypes
  <2> QED BY <2>2 DEF Due
<1>2. /\ wk # Idle /\ wk' # Idle /\ Due("decide") /\ ~Decide /\ wk.how = "none"
      /\ NextStep \/ wk'.todo = wk.todo
  BY <1>0, <1>1, StillSearching
<1>3. Managed /\ mr'.ext = mr.ext /\ mr.ext = wk.mr.ext
  <2>1. ~NewMR
    BY <1>0, <1>2 DEF NewMR, Copies
  <2>2. Managed
    BY <1>0, <2>1, ExtMoves
  <2>3. mr.ext = wk.mr.ext
    BY <1>2, <2>2 DEF AllInv, TwinInv
  <2> QED BY <1>0, <2>1, <2>2, <2>3, ExtMoves
<1>4. CASE ~Due("ref")
  BY <1>0, <1>2, <1>3, <1>4 DEF AllInv, TwinInv
<1>5. CASE Due("ref")
  <2>1. NextStep /\ Head(wk.todo) = "ref"
    BY <1>2, <1>5 DEF NextStep, Due
  <2>2. ByRef \/ wk' = wk \/ Outdated
    BY <1>0, <1>2, <2>1, GoesOn, PassingOn
       DEF Persists, Guard, ByUID, ByKey, RefuseKey, Post, Put, At
  <2>3. ByRef
    BY <1>5, <2>2 DEF Outdated, Due
  <2>4. wk.mr.ext = NoRef \/ ~Exists(wk.mr.ext)
    BY <1>0, <1>2, <2>3, ByRefOn
  <2>5. wk.mr.ext \notin Unowned
    BY <2>4, LifecycleConstants DEF Unowned
  <2> QED BY <1>0, <1>3, <2>5
<1> QED BY <1>4, <1>5

LEMMA PostExtNext ==
    ASSUME AllInv, ~Guarded, Stamped, [Next]_vars, "rename" \notin AdminOps, Managed', Due("post")'
    PROVE  mr'.ext \notin Unowned'
<1>0. TypeInv /\ WorkInv /\ Shaped(wk.todo) /\ Copies /\ Unowned' \subseteq Unowned
  BY Unclaimed DEF AllInv, WorkInv
<1>1. wk' # Idle
  BY DEF Due, Among, Idle
<1>2. ~Begin
  BY <1>0, BeginRequests
<1>3. CASE Decide
  <2>1. wk # Idle /\ Due("decide") /\ Head(wk.todo) = "decide" /\ mr' = mr /\ wk.how = "none"
    BY <1>0, <1>1, <1>3, DecideOn, DecideRequests DEF Decide
  <2>2. ~Due("ref")
    BY <1>0, <2>1, LastStep
  <2>3. Managed
    BY <2>1 DEF Managed
  <2> QED BY <1>0, <2>1, <2>2, <2>3 DEF AllInv, TwinInv
<1>4. CASE ~Decide
  <2>1. wk # Idle /\ Due("post")
    BY <1>0, <1>1, <1>2, <1>4, Continues
  <2>2. ~NewMR
    BY <1>0, <2>1 DEF NewMR, Copies
  <2>3. Managed /\ (mr'.ext = mr.ext \/ mr'.ext = wk.mr.ext)
    BY <1>0, <2>2, ExtMoves
  <2>4. mr.ext \notin Unowned
    BY <2>1, <2>3 DEF AllInv, TwinInv
  <2>5. wk.mr.ext \notin Unowned
    BY <2>1, <2>3, <2>4 DEF AllInv, TwinInv
  <2> QED BY <1>0, <2>3, <2>4, <2>5
<1> QED BY <1>3, <1>4

\* What was found has been found in one of these ways.
LEMMA FoundMoves ==
    ASSUME AllInv, Stamped, [Next]_vars, wk # Idle, wk' # Idle
    PROVE  \/ wk'.how = wk.how /\ wk'.at = wk.at
           \/ wk'.how = "none"
           \/ grid' = grid /\ ~Decide /\ wk'.how \in {"found", "recovered"} /\ wk'.at \in Mine
           \/ /\ grid' = grid /\ ~Decide /\ wk'.how = "adopted" /\ wk'.at = wk.mr.ext
              /\ wk'.at \in Unowned
<1>0. TypeInv /\ WorkInv
  BY DEF AllInv, WorkInv
<1>1. CASE wk' = wk \/ Outdated \/ Persists
  BY <1>1 DEF Outdated, Persists, Kept3
<1>2. CASE Passing \/ Guard
  BY <1>0, <1>2, PassingOn, GuardOn DEF Kept3
<1>3. CASE Decide
  BY <1>0, <1>3, DecideCopies
<1>4. CASE ByRef
  <2>1. ~Decide /\ grid' = grid
    BY <1>4 DEF ByRef, Decide, At
  <2>2. CASE wk'.how = "found"
    <3>1. wk'.at = wk.mr.ext /\ wk.mr.ext \in Ref /\ Exists(wk.mr.ext) /\ grid[wk.mr.ext].own = "mine"
      BY <1>0, <1>4, <2>2, ByRefOn
    <3> QED BY <2>1, <2>2, <3>1 DEF Mine
  <2>3. CASE wk'.how = "adopted"
    <3>1. wk'.at = wk.mr.ext /\ wk.mr.ext \in Ref /\ Exists(wk.mr.ext) /\ grid[wk.mr.ext].own = "nobody"
      BY <1>0, <1>4, <2>3, ByRefOn
    <3> QED BY <2>1, <2>3, <3>1 DEF Unowned
  <2> QED BY <1>0, <1>4, <2>2, <2>3, ByRefOn
<1>5. CASE ByUID
  <2>1. ~Decide /\ grid' = grid
    BY <1>5 DEF ByUID, Decide, At
  <2> QED BY <1>0, <1>5, <2>1, ByUIDOn
<1>6. ~ByKey
  BY <1>0, AtDue DEF ByKey, AllInv, TwinInv
<1>7. CASE RefuseKey
  BY <1>0, <1>7, RefuseKeyOn
<1>8. CASE Post
  BY <1>0, <1>8, PostOn DEF Kept3
<1>9. CASE Put
  BY <1>0, <1>9, PutMoves
<1> QED BY <1>0, <1>1, <1>2, <1>3, <1>4, <1>5, <1>6, <1>7, <1>8, <1>9, GoesOn

\* Nothing has been found when a reconcile begins.
LEMMA FoundGoesOn ==
    ASSUME WorkInv, [Next]_vars, wk' # Idle, wk'.how # "none"
    PROVE  wk # Idle
<1>0. TypeInv
  BY DEF WorkInv
<1> SUFFICES ASSUME wk = Idle PROVE FALSE
  OBVIOUS
<1>1. ~Begin
  BY <1>0, BeginTypes
<1>2. ~Decide
  BY <1>0, AtDue DEF Decide
<1> QED BY <1>1, <1>2, Continues

LEMMA FoundNext ==
    ASSUME AllInv, Stamped, ~Guarded, [Next]_vars, "rename" \notin AdminOps, wk' # Idle,
           wk'.how \in {"found", "recovered"}, wk'.at \in Ref, Exists(wk.at)'
    PROVE  wk'.at \in Mine'
<1>0. TypeInv /\ WorkInv /\ wk # Idle
  BY FoundGoesOn DEF AllInv, WorkInv
<1>1. CASE wk'.how = wk.how /\ wk'.at = wk.at
  <2>1. Exists(wk'.at) => wk'.at \in Mine
    BY <1>0, <1>1 DEF AllInv, TwinInv
  <2> QED BY <1>0, <2>1, MineKept
<1>2. CASE wk'.at \in Mine
  BY <1>0, <1>2, MineKept
<1> QED BY <1>0, <1>1, <1>2, FoundMoves

LEMMA AdoptedNext ==
    ASSUME AllInv, Stamped, ~Guarded, [Next]_vars, "rename" \notin AdminOps,
           Due("decide")' \/ Due("put")', wk'.how = "adopted", Exists(wk.at)'
    PROVE  wk'.at \in Unowned'
<1>0. TypeInv /\ WorkInv /\ wk # Idle /\ wk' # Idle
  <2>1. wk' # Idle
    BY DEF Due, Among, Idle
  <2> QED BY <2>1, FoundGoesOn DEF AllInv, WorkInv
<1>1. ~Post
  <2> SUFFICES ASSUME Post PROVE FALSE
    OBVIOUS
  <2>1. Due("post") /\ NextStep
    BY <1>0, PostOn
  <2> QED BY <1>0, <2>1, RequestAlone DEF NextStep, Onward
<1>2. ~Put
  <2> SUFFICES ASSUME Put PROVE FALSE
    OBVIOUS
  <2>1. Due("put") /\ Head(wk.todo) = "put" /\ NextStep
    BY <1>0, PutMoves
  <2>2. wk.todo \in Seq(Steps) /\ wk.todo # <<>>
    BY <1>0, UnderWay
  <2>3. ~Due("put")'
    BY <2>1, <2>2, NotLeft DEF AllInv, TwinInv, Due, NextStep
  <2> QED BY <1>0, <2>1, <2>3, RequestAlone DEF NextStep, Onward
<1>3. Shrinks
  BY <1>0, <1>1, <1>2, GridMoves DEF Renames
<1>4. ASSUME wk'.at \in Ref, Exists(wk'.at) => wk'.at \in Unowned PROVE wk'.at \in Unowned'
  BY <1>3, <1>4 DEF Shrinks, Unowned
<1>5. CASE wk'.how = wk.how /\ wk'.at = wk.at
  <2>1. Due("decide") \/ Due("put")
    <3>1. CASE Decide
      BY <1>0, <3>1, DecideOn
    <3>2. ~Begin
      BY <1>0 DEF Begin
    <3> QED BY <1>0, <3>1, <3>2, Continues
  <2>2. wk.at \in Ref
    BY <1>0, <1>5, <2>1 DEF TypeInv, Known, AllInv, TwinInv
  <2> QED BY <1>4, <1>5, <2>1, <2>2 DEF AllInv, TwinInv
<1>6. CASE wk'.at \in Unowned
  BY <1>4, <1>6 DEF Unowned
<1> QED BY <1>0, <1>5, <1>6, FoundMoves

LEMMA SoleNext ==
    ASSUME AllInv, Stamped, ~Guarded, [Next]_vars, "rename" \notin AdminOps,
           Due("decide")', wk'.how # "none"
    PROVE  Mine' \subseteq {wk'.at}
<1>0. TypeInv /\ WorkInv /\ wk # Idle /\ wk' # Idle
  <2>1. wk' # Idle
    BY DEF Due, Among, Idle
  <2> QED BY <2>1, FoundGoesOn DEF AllInv, WorkInv
<1>1. ~Decide /\ ~Begin
  BY <1>0, DecideDue DEF Begin
<1>2. Due("decide")
  BY <1>0, <1>1, Continues
<1>3. ~Post /\ ~Put
  BY <1>0, <1>2, RequestAlone, AtDue DEF Post, Put
<1>4. Mine' \subseteq Mine
  BY <1>0, <1>3, GridMoves, ShrinksMine DEF Renames
<1>5. CASE wk'.how = wk.how /\ wk'.at = wk.at
  BY <1>2, <1>4, <1>5 DEF AllInv, TwinInv
<1>6. CASE wk'.at \in Mine
  BY <1>4, <1>6 DEF AllInv, TwinInv
<1>7. CASE wk'.at = wk.mr.ext /\ wk'.at \in Unowned
  <2>1. CASE Managed
    <3>1. mr.ext = wk.mr.ext
      BY <1>2, <2>1 DEF AllInv, TwinInv
    <3>2. Mine = {}
      BY <1>7, <2>1, <3>1 DEF AllInv, TwinInv
    <3> QED BY <1>4, <3>2
  <2>2. CASE ~Managed
    BY <1>4, <2>2 DEF AllInv, OrphanInv
  <2> QED BY <2>1, <2>2
<1> QED BY <1>0, <1>5, <1>6, <1>7, FoundMoves

LEMMA TwinNext ==
    ASSUME AllInv, SearchesInOrder, "rename" \notin AdminOps, [Next]_vars
    PROVE  TwinInv'
<1>1. WorkInv /\ TwinInv
  BY DEF AllInv
<1>2. NoneAfter({"put"}, {"put"}, wk'.todo)
  BY <1>1, PutOnceNext DEF TwinInv
<1>3. Due("key")' => ~Stamped
  BY <1>1, KeyNext DEF TwinInv
<1>4. Due("put")' => wk'.how # "none" /\ wk'.mr.ext = wk'.at
  BY <1>1, PutRefers
<1>5. Due("decide")' /\ Managed' => mr'.ext = wk'.mr.ext
  BY <1>1, DecideExt
<1>6. Guarded' = Guarded /\ Stamped' = Stamped
  BY <1>1, SameTable
<1>7. ~Guarded => \A r, q \in Mine' : r = q
  BY OneNext
<1>8. ASSUME ~Guarded, Stamped
      PROVE  /\ Managed' /\ mr'.ext \in Unowned' => Mine' = {}
             /\ Managed' /\ wk' # Idle /\ wk'.mr.ext \in Unowned' => mr'.ext = wk'.mr.ext
             /\ Managed' /\ Due("decide")' /\ wk'.how = "none" /\ ~Due("ref")'
                  => mr'.ext \notin Unowned'
             /\ Managed' /\ Due("post")' => mr'.ext \notin Unowned'
             /\ wk' # Idle /\ wk'.how \in {"found", "recovered"} /\ wk'.at \in Ref /\ Exists(wk.at)'
                  => wk'.at \in Mine'
             /\ (Due("decide")' \/ Due("put")') /\ wk'.how = "adopted" /\ Exists(wk.at)'
                  => wk'.at \in Unowned'
             /\ Due("decide")' /\ wk'.how # "none" => Mine' \subseteq {wk'.at}
  BY <1>8, ExtNext, WorkExtNext, RefNext, PostExtNext, FoundNext, AdoptedNext, SoleNext
<1> QED BY <1>2, <1>3, <1>4, <1>5, <1>6, <1>7, <1>8 DEF TwinInv
LEMMA TwinInit == Init => TwinInv
<1> SUFFICES ASSUME Init PROVE TwinInv
  OBVIOUS
<1>1. \A x : ~Due(x)
  BY DEF Init, Idle, Due, Among
<1>2. NoneAfter({"put"}, {"put"}, wk.todo) /\ wk = Idle
  BY DEF Init, Idle, NoneAfter
<1>3. Mine = {}
  <2>1. SearchInv /\ OrphanInv /\ TypeOK
    BY OrphanInit, WorkInit DEF WorkInv, TypeInv
  <2>2. subject \in Subjects /\ grid \in Preexisting[subject.kind] /\ subject.kind \in DOMAIN Kinds
    BY <2>1, StartupConstants DEF Init, TypeOK, StartupTypeOK
  <2> QED BY <2>2, LifecycleConstants DEF Mine, Exists
<1>4. ~Managed
  BY DEF Init, Managed, NoMR
<1> QED BY <1>1, <1>2, <1>3, <1>4, Zenon DEF TwinInv

LEMMA TwinHolds ==
    ASSUME SearchesInOrder, "rename" \notin AdminOps
    PROVE  Spec => []AllInv
<1>1. Init => AllInv
  BY WorkInit, OrphanInit, TwinInit DEF AllInv
<1>2. AllInv /\ [Next]_vars => AllInv'
  BY WorkNext, SearchNext, OrphanNext, TwinNext DEF AllInv
<1> QED BY <1>1, <1>2, PTL DEF Spec

\* No controller makes a second object for its resource, whatever is lost between the POST,
\* the record of its reference and a retry, for every table that searches by what it stamps
\* or by a key that cannot be edited, as long as nobody renames what the provider has
\* stamped while its resource is being looked for.
THEOREM NoTwinHolds ==
    SearchesInOrder /\ "rename" \notin AdminOps => (Spec => []NoTwin)
<1> SUFFICES ASSUME SearchesInOrder, "rename" \notin AdminOps PROVE Spec => []NoTwin
  OBVIOUS
<1>1. AllInv => NoTwin
  <2> SUFFICES ASSUME AllInv, ~Guarded PROVE Cardinality(Mine) <= 1
    BY DEF NoTwin, Guarded
  <2>1. CASE Mine = {}
    BY <2>1, FS_EmptySet
  <2>2. CASE Mine # {}
    <3>1. PICK r \in Mine : TRUE
      BY <2>2
    <3>2. Mine = {r}
      BY <3>1 DEF AllInv, TwinInv
    <3> QED BY <3>2, FS_Singleton
  <2> QED BY <2>1, <2>2
<1> QED BY <1>1, TwinHolds, PTL

-----------------------------------------------------------------------------
(***************************************************************************)
(* What is not to be touched.                                              *)
(***************************************************************************)
LEMMA OrderNext ==
    ASSUME WorkInv, [Next]_vars, NEW A, NEW B, NoneAfter(A, B, wk.todo), NoneAfter(A, B, BeginProgram),
           \A fin : NoneAfter(A, B, CreateProgram(fin)),
           \A fin, late, same : NoneAfter(A, B, UpdateProgram(fin, late, same)),
           NoneAfter(A, B, S.client.delete)
    PROVE  NoneAfter(A, B, wk'.todo)
<1>0. TypeInv /\ Shaped(wk.todo)
  BY DEF WorkInv
<1>1. CASE wk' = Idle
  BY <1>1 DEF NoneAfter, Idle
<1>2. CASE wk' = wk \/ Outdated
  BY <1>2 DEF Outdated
<1>3. CASE Begin
  BY <1>0, <1>3, BeginTypes
<1>4. CASE Decide /\ wk' # Idle
  <2>1. \/ wk'.todo = UpdateProgram(wk.mr.fin, Filled(wk) # wk.mr, UpToDate(wk))
        \/ wk'.todo = <<"unfinalize">>
        \/ wk'.todo = CreateProgram(wk.mr.fin)
        \/ wk'.todo = S.client.delete
    BY <1>0, <1>4, DecideOn DEF Left
  <2>2. NoneAfter(A, B, <<"unfinalize">>)
    BY Single
  <2> QED BY <2>1, <2>2
<1>5. CASE Advances \/ Persists
  <2>1. wk # Idle /\ wk' \in Works /\ Suffix(wk'.todo, wk.todo)
    BY <1>5 DEF Advances, Persists, NextStep, Onward
  <2>2. wk.todo \in Seq(Steps) /\ wk'.todo \in Seq(Steps)
    BY <1>0, <2>1, UnderWay DEF Works
  <2> QED BY <2>1, <2>2, SuffixNoneAfter
<1> QED BY <1>0, <1>1, <1>2, <1>3, <1>4, <1>5, WorkMoves

LEMMA ResolvedOrder ==
    ASSUME WorkInv, ChecksInOrder, Reserving, [Next]_vars,
           NoneAfter({"put", "delete"}, {"resolved"}, wk.todo)
    PROVE  NoneAfter({"put", "delete"}, {"resolved"}, wk'.todo)
<1> DEFINE A == {"put", "delete"}
           B == {"resolved"}
<1>0. StartupTypeOK /\ ChecksFirst(S)
  <2>1. StartupTypeOK
    BY DEF WorkInv, TypeInv, TypeOK
  <2> QED BY <2>1 DEF ChecksInOrder, StartupTypeOK, S, K
<1>1. NoneAfter(A, B, BeginProgram)
  <2>1. BeginProgram \in Seq(ConnectSteps \cup ObserveSteps \cup {"decide"})
    BY <1>0, BeginSteps
  <2>2. (ConnectSteps \cup ObserveSteps \cup {"decide"}) \cap A = {}
    BY DEF ConnectSteps, ObserveSteps, Lookups
  <2> HIDE DEF A, B
  <2> QED BY <2>1, <2>2, NoneAfterAbsent
<1>2. ASSUME NEW fin PROVE NoneAfter(A, B, CreateProgram(fin))
  <2>1. CreateProgram(fin) \in Seq({"finalizer", "pending"} \cup CreateSteps)
    BY <1>0, CreateProgramSteps
  <2>2. ({"finalizer", "pending"} \cup CreateSteps) \cap A = {}
    BY DEF CreateSteps
  <2> HIDE DEF A, B
  <2> QED BY <2>1, <2>2, NoneAfterAbsent
<1>3. NoneAfter({"put"}, {"resolved"}, S.client.update)
  BY <1>0 DEF ChecksFirst, Reserving
<1>4. NoneAfter(A, B, S.client.update)
  <2>1. S.client.update \in Seq(UpdateSteps) /\ "delete" \notin UpdateSteps
    BY <1>0, SubjectPrograms DEF UpdateSteps
  <2>2. ~Among("delete", S.client.update)
    BY <2>1, AmongSeq
  <2> QED BY <1>3, <2>2 DEF NoneAfter, Among
<1>5. NoneAfter({"delete"}, {"resolved"}, S.client.delete)
  BY <1>0 DEF ChecksFirst, Reserving
<1>6. NoneAfter(A, B, S.client.delete)
  <2>1. S.client.delete \in Seq(DeleteSteps) /\ "put" \notin DeleteSteps
    BY <1>0, SubjectPrograms DEF DeleteSteps, Lookups
  <2>2. ~Among("put", S.client.delete)
    BY <2>1, AmongSeq
  <2> QED BY <1>5, <2>2 DEF NoneAfter, Among
<1>7. ASSUME NEW fin, NEW late, NEW same PROVE NoneAfter(A, B, UpdateProgram(fin, late, same))
  <2>1. "finalizer" \notin A /\ "late" \notin A
    OBVIOUS
  <2> HIDE DEF A, B
  <2> QED BY <1>0, <1>4, <2>1, UpdateNoneAfter
<1> HIDE DEF A, B
<1>8. NoneAfter(A, B, wk.todo) => NoneAfter(A, B, wk'.todo)
  BY <1>1, <1>2, <1>6, <1>7, OrderNext
<1> QED BY <1>8 DEF A, B

LEMMA WellKnownOrder ==
    ASSUME WorkInv, ChecksInOrder, Keeping, [Next]_vars,
           NoneAfter(Lookups \cup {"delete"}, {"wellKnown"}, wk.todo)
    PROVE  NoneAfter(Lookups \cup {"delete"}, {"wellKnown"}, wk'.todo)
<1> DEFINE A == Lookups \cup {"delete"}
           B == {"wellKnown"}
<1>0. StartupTypeOK /\ ChecksFirst(S)
  <2>1. StartupTypeOK
    BY DEF WorkInv, TypeInv, TypeOK
  <2> QED BY <2>1 DEF ChecksInOrder, StartupTypeOK, S, K
<1>1. NoneAfter(A, B, BeginProgram)
  <2>1. BeginProgram \in Seq(ConnectSteps \cup ObserveSteps \cup {"decide"})
    BY <1>0, BeginSteps
  <2>2. (ConnectSteps \cup ObserveSteps \cup {"decide"}) \cap B = {}
    BY DEF ConnectSteps, ObserveSteps, Lookups
  <2> HIDE DEF A, B
  <2> QED BY <2>1, <2>2, NoneAfterAbsent
<1>2. ASSUME NEW fin PROVE NoneAfter(A, B, CreateProgram(fin))
  <2>1. CreateProgram(fin) \in Seq({"finalizer", "pending"} \cup CreateSteps)
    BY <1>0, CreateProgramSteps
  <2>2. ({"finalizer", "pending"} \cup CreateSteps) \cap B = {}
    BY DEF CreateSteps
  <2> HIDE DEF A, B
  <2> QED BY <2>1, <2>2, NoneAfterAbsent
<1>3. ASSUME NEW fin, NEW late, NEW same PROVE NoneAfter(A, B, UpdateProgram(fin, late, same))
  <2>1. UpdateProgram(fin, late, same) \in Seq({"finalizer", "late"} \cup UpdateSteps)
    BY <1>0, UpdateProgramSteps
  <2>2. ({"finalizer", "late"} \cup UpdateSteps) \cap B = {}
    BY DEF UpdateSteps
  <2> HIDE DEF A, B
  <2> QED BY <2>1, <2>2, NoneAfterAbsent
<1>4. NoneAfter(A, B, S.client.delete)
  BY <1>0 DEF ChecksFirst, Keeping
<1> HIDE DEF A, B
<1>5. NoneAfter(A, B, wk.todo) => NoneAfter(A, B, wk'.todo)
  BY <1>1, <1>2, <1>3, <1>4, OrderNext
<1> QED BY <1>5 DEF A, B

\* What a decision leads on to.
LEMMA DecideRelease ==
    ASSUME WorkInv, Decide, wk' # Idle, Due("delete")' \/ Due("wellKnown")' \/ Due("key")' \/ Due("uid")'
    PROVE  wk.how # "none" /\ wk'.todo = S.client.delete
<1>0. TypeInv /\ StartupTypeOK
  BY DEF WorkInv, TypeInv, TypeOK
<1> DEFINE R == {"delete", "wellKnown", "key", "uid"}
<1>1. \/ wk.how # "none" /\ wk'.todo = UpdateProgram(wk.mr.fin, Filled(wk) # wk.mr, UpToDate(wk))
      \/ wk'.todo = <<"unfinalize">>
      \/ wk'.todo = CreateProgram(wk.mr.fin)
      \/ wk.how # "none" /\ wk'.todo = S.client.delete
  BY <1>0, DecideOn DEF Left
<1>2. wk'.todo # UpdateProgram(wk.mr.fin, Filled(wk) # wk.mr, UpToDate(wk))
  <2> SUFFICES ASSUME wk'.todo = UpdateProgram(wk.mr.fin, Filled(wk) # wk.mr, UpToDate(wk))
               PROVE  FALSE
    OBVIOUS
  <2>1. wk'.todo \in Seq({"finalizer", "late"} \cup UpdateSteps)
    BY <1>0, UpdateProgramSteps
  <2> QED BY <2>1, AmongSeq DEF UpdateSteps, Due
<1>3. wk'.todo # <<"unfinalize">>
  BY Single DEF Due
<1>4. wk'.todo # CreateProgram(wk.mr.fin)
  <2> SUFFICES ASSUME wk'.todo = CreateProgram(wk.mr.fin) PROVE FALSE
    OBVIOUS
  <2>1. wk'.todo \in Seq({"finalizer", "pending"} \cup CreateSteps)
    BY <1>0, CreateProgramSteps
  <2> QED BY <2>1, AmongSeq DEF CreateSteps, Due
<1> QED BY <1>1, <1>2, <1>3, <1>4

LEMMA DecidePut ==
    ASSUME WorkInv, Decide, wk' # Idle, Due("put")'
    PROVE  \A x : Among(x, S.client.update) => Due(x)'
<1>0. TypeInv /\ StartupTypeOK
  BY DEF WorkInv, TypeInv, TypeOK
<1> DEFINE f == wk.mr.fin
           l == Filled(wk) # wk.mr
           s == UpToDate(wk)
<1>1. \/ wk'.todo = UpdateProgram(f, l, s)
      \/ wk'.todo = <<"unfinalize">>
      \/ wk'.todo = CreateProgram(wk.mr.fin)
      \/ wk'.todo = S.client.delete
  BY <1>0, DecideOn DEF Left
<1> HIDE DEF f, l, s
<1>2. wk'.todo # <<"unfinalize">>
  BY Single DEF Due
<1>3. wk'.todo # CreateProgram(wk.mr.fin)
  <2> SUFFICES ASSUME wk'.todo = CreateProgram(wk.mr.fin) PROVE FALSE
    OBVIOUS
  <2>1. wk'.todo \in Seq({"finalizer", "pending"} \cup CreateSteps)
    BY <1>0, CreateProgramSteps
  <2> QED BY <2>1, AmongSeq DEF CreateSteps, Due
<1>4. wk'.todo # S.client.delete
  <2> SUFFICES ASSUME wk'.todo = S.client.delete PROVE FALSE
    OBVIOUS
  <2>1. wk'.todo \in Seq(DeleteSteps)
    BY <1>0, SubjectPrograms
  <2> QED BY <2>1, AmongSeq DEF DeleteSteps, Lookups, Due
<1>5. wk'.todo = UpdateProgram(f, l, s)
  BY <1>1, <1>2, <1>3, <1>4
<1>6. \A x : Among(x, UpdateProgram(f, l, s)) <=>
               (~f /\ x = "finalizer") \/ (l /\ x = "late") \/ (~s /\ Among(x, S.client.update))
  BY <1>0, UpdateProgramSteps
<1>7. ~s
  BY <1>5, <1>6 DEF Due
<1> QED BY <1>5, <1>6, <1>7 DEF Due

\* Only its own step takes a check off what is due.
LEMMA CheckTaken ==
    ASSUME WorkInv, [Next]_vars, ~Begin, ~Decide, wk' # Idle, NEW x \in {"resolved", "wellKnown"},
           Due(x), ~Due(x)'
    PROVE  /\ At(x) /\ ~Refuses /\ grid' = grid
           /\ wk'.mr = wk.mr /\ wk'.at = wk.at
<1>0. TypeInv
  BY DEF WorkInv
<1>1. wk # Idle /\ (Advances \/ Persists)
  BY <1>0, Continues DEF Outdated, Due
<1>2. Head(wk.todo) = x
  BY <1>1 DEF Advances, Persists, NextStep, Onward, Lookups
<1>3. At(x)
  BY <1>1, <1>2 DEF At
<1>4. Check
  <2>1. ~Outdated /\ wk' # wk
    BY DEF Outdated, Due
  <2>2. ~Persists
    BY <1>2 DEF Persists
  <2>3. ~(Guard \/ ByRef \/ ByUID \/ ByKey \/ RefuseKey \/ Post \/ Put \/ Track \/ GetConfig
            \/ Probe \/ Delete)
    BY <1>2
       DEF Guard, ByRef, ByUID, ByKey, RefuseKey, Post, Put, Track, GetConfig, Probe, Delete, At
  <2> QED BY <1>1, <2>1, <2>2, <2>3, GoesOn DEF Passing
<1>5. ~Refuses /\ grid' = grid
  BY <1>4 DEF Check, GiveUp, Return
<1>6. wk'.mr = wk.mr /\ wk'.at = wk.at
  BY <1>0, <1>4, PassingOn DEF Passing, Copied, Kept3
<1> QED BY <1>3, <1>5, <1>6

\* Where a search may lead.
LEMMA AtMoves ==
    ASSUME WorkInv, [Next]_vars, ~Decide, wk # Idle, wk' # Idle
    PROVE  \/ wk'.at \in {wk.at, NoRef}
           \/ wk'.at = wk.mr.ext
           \/ Due("uid") /\ wk'.at \in Mine
           \/ Due("key")
<1>0. TypeInv
  BY DEF WorkInv
<1>1. CASE wk' = wk \/ Outdated \/ Persists
  BY <1>1 DEF Outdated, Persists, Kept3
<1>2. CASE Passing \/ Guard
  BY <1>0, <1>2, PassingOn, GuardOn DEF Kept3
<1>3. CASE ByRef \/ ByUID \/ ByKey \/ RefuseKey
  BY <1>0, <1>3, ByRefOn, ByUIDOn, ByKeyOn, RefuseKeyOn
<1>4. CASE Post
  BY <1>0, <1>4, PostOn DEF Kept3
<1>5. CASE Put
  BY <1>0, <1>5, PutMoves
<1> QED BY <1>1, <1>2, <1>3, <1>4, <1>5, GoesOn

\* A reconcile that releases its object makes no other request.
LEMMA ReleaseAlone ==
    ASSUME AllInv, [Next]_vars, "rename" \notin AdminOps, ~Begin, ~Decide, wk' # Idle,
           Due("delete") \/ Due("wellKnown") \/ Due("decide")
    PROVE  wk # Idle /\ ~Post /\ ~Put /\ wk'.mr.ext = wk.mr.ext /\ Shrinks /\ Mine' \subseteq Mine
<1>0. TypeInv /\ WorkInv
  BY DEF AllInv, WorkInv
<1>1. wk # Idle
  BY DEF Due, Among, Idle
<1>2. ~Post /\ ~Put
  BY <1>0, RequestAlone, AtDue DEF Post, Put
<1>3. Shrinks
  BY <1>0, <1>2, GridMoves DEF Renames
<1>4. wk'.mr.ext = wk.mr.ext
  BY <1>0, <1>1, <1>2, CopyMoves
<1> QED BY <1>1, <1>2, <1>3, <1>4, ShrinksMine

LEMMA KeepNext ==
    ASSUME AllInv, ReservedInv, ChecksInOrder, Keeping, "rename" \notin AdminOps, [Next]_vars
    PROVE  /\ Due("wellKnown")' => wk'.mr.ext = wk'.at /\ wk'.at \in Ref /\ Mine' \subseteq {wk'.at}
           /\ Due("delete")' /\ ~Due("wellKnown")' =>
                /\ \A r \in Mine' : r.key # Reserved
                /\ wk'.at # NoRef => wk'.at.key # Reserved
                /\ wk'.mr.ext # NoRef => wk'.mr.ext.key # Reserved
<1>0. TypeInv /\ WorkInv /\ StartupTypeOK
  BY DEF AllInv, WorkInv, TypeInv, TypeOK
<1>1. ~Guarded /\ Stamped
  <2>1. ChecksFirst(S)
    BY <1>0 DEF ChecksInOrder, StartupTypeOK, S, K
  <2> QED BY <2>1 DEF ChecksFirst, Keeping, Guarded, Stamped
<1>2. ASSUME Due("wellKnown")' \/ Due("delete")' PROVE wk' # Idle /\ ~Begin
  BY <1>0, <1>2, BeginRequests DEF Due, Among, Idle
<1>3. ASSUME Due("wellKnown")'
      PROVE  wk'.mr.ext = wk'.at /\ wk'.at \in Ref /\ Mine' \subseteq {wk'.at}
  <2>1. CASE Decide
    <3>1. wk.how # "none" /\ Due("decide")
      BY <1>0, <1>2, <1>3, <2>1, DecideRelease, DecideOn
    <3>2. wk'.mr.ext = wk.at /\ wk'.at = wk.at
      BY <1>0, <1>2, <1>3, <2>1, <3>1, DecideCopies
    <3>3. wk.at \in Ref
      BY <1>0, <3>1 DEF TypeInv, Known
    <3>4. Mine \subseteq {wk.at}
      BY <1>1, <3>1 DEF AllInv, TwinInv
    <3>5. Mine' = Mine
      BY <2>1 DEF Decide, Mine, Exists
    <3> QED BY <3>2, <3>3, <3>4, <3>5
  <2>2. CASE ~Decide
    <3>1. Due("wellKnown")
      BY <1>0, <1>2, <1>3, <2>2, Continues
    <3>2. wk # Idle /\ wk'.mr.ext = wk.mr.ext /\ Mine' \subseteq Mine
      BY <1>2, <1>3, <2>2, <3>1, ReleaseAlone
    <3>3. Head(wk.todo) \notin Lookups \cup {"delete"}
      <4>1. wk.todo \in Seq(Steps) /\ wk.todo # <<>>
        BY <1>0, <3>2, UnderWay
      <4>2. NoneAfter(Lookups \cup {"delete"}, {"wellKnown"}, wk.todo)
        BY DEF ReservedInv
      <4>3. "wellKnown" \notin Lookups \cup {"delete"}
        BY DEF Lookups
      <4> QED BY <3>1, <4>1, <4>2, <4>3, HeadOrLeft, NotLeft DEF Due
    <3>4. wk'.at = wk.at
      <4>1. wk' = wk \/ Outdated \/ Advances \/ Persists
        BY <1>0, <1>2, <1>3, <2>2, Continues
      <4> QED BY <1>0, <3>3, <4>1, SearchMoves DEF Outdated, Kept3
    <3> QED BY <3>1, <3>2, <3>4 DEF ReservedInv
  <2> QED BY <2>1, <2>2
<1>4. ASSUME Due("delete")', ~Due("wellKnown")'
      PROVE  /\ \A r \in Mine' : r.key # Reserved
             /\ wk'.at # NoRef => wk'.at.key # Reserved
             /\ wk'.mr.ext # NoRef => wk'.mr.ext.key # Reserved
  <2>1. ~Decide
    BY <1>0, <1>2, <1>4, DecideRelease DEF Keeping, Due
  <2>2. Due("delete")
    BY <1>0, <1>2, <1>4, <2>1, Continues
  <2>3. wk # Idle /\ wk'.mr.ext = wk.mr.ext /\ Mine' \subseteq Mine
    BY <1>2, <1>4, <2>1, <2>2, ReleaseAlone
  <2>4. CASE Due("wellKnown")
    <3>1. At("wellKnown") /\ ~Refuses /\ wk'.at = wk.at
      BY <1>0, <1>2, <1>4, <2>1, <2>4, CheckTaken
    <3>2. wk.at.key # Reserved
      BY <3>1 DEF Refuses
    <3>3. wk.mr.ext = wk.at /\ Mine \subseteq {wk.at}
      BY <2>4 DEF ReservedInv
    <3> QED BY <2>3, <3>1, <3>2, <3>3
  <2>5. CASE ~Due("wellKnown")
    <3>1. /\ \A r \in Mine : r.key # Reserved
          /\ wk.at # NoRef => wk.at.key # Reserved
          /\ wk.mr.ext # NoRef => wk.mr.ext.key # Reserved
      BY <2>2, <2>5 DEF ReservedInv
    <3>2. ~Due("key")
      BY <1>1 DEF AllInv, TwinInv
    <3> QED BY <1>0, <1>2, <1>4, <2>1, <2>3, <3>1, <3>2, AtMoves
  <2> QED BY <2>4, <2>5
<1> QED BY <1>3, <1>4

LEMMA ReserveNext ==
    ASSUME AllInv, ReservedInv, ChecksInOrder, Reserving, "rename" \notin AdminOps, [Next]_vars
    PROVE  /\ ~Due("uid")' /\ ~Due("key")'
           /\ Due("decide")' \/ Due("delete")' => wk'.at \in {wk'.mr.ext, NoRef}
           /\ (Due("put")' \/ Due("delete")') /\ ~Due("resolved")' => ~Untouchable(wk.mr.ext)'
<1>0. TypeInv /\ WorkInv /\ StartupTypeOK
  BY DEF AllInv, WorkInv, TypeInv, TypeOK
<1>1. /\ Among("resolved", S.client.update) /\ Among("resolved", S.client.delete)
      /\ \A x \in {"uid", "key"} : ~Among(x, S.client.observe) /\ ~Among(x, S.client.delete)
  <2>1. S.client.observe \in Seq(Steps) /\ S.client.delete \in Seq(Steps)
    <3>1. S.client.observe \in Seq(ObserveSteps) /\ S.client.delete \in Seq(DeleteSteps)
      BY <1>0, SubjectPrograms
    <3> QED BY <3>1, AllSteps, SeqMonotonic
  <2>2. ChecksFirst(S)
    BY <1>0 DEF ChecksInOrder, StartupTypeOK, S, K
  <2> QED BY <2>1, <2>2, AmongConcat DEF ChecksFirst, Reserving
<1>2. ~Due("uid") /\ ~Due("key")
  BY DEF ReservedInv
<1>3. ASSUME NEW x \in {"uid", "key"}, Due(x)' PROVE FALSE
  <2>1. wk' # Idle
    BY <1>3 DEF Due, Among, Idle
  <2>2. CASE Begin
    <3>1. Among(x, BeginProgram)
      BY <1>0, <1>3, <2>2, BeginTypes DEF Due
    <3>2. S.connect \in Seq(ConnectSteps) /\ x \notin ConnectSteps
      BY <1>0, SubjectPrograms DEF ConnectSteps
    <3>3. ~Among(x, S.connect)
      BY <3>2, AmongSeq
    <3> QED BY <1>0, <1>1, <3>1, <3>3, BeginSteps
  <2>3. CASE Decide
    <3>1. Due("delete")' \/ Due("wellKnown")' \/ Due("key")' \/ Due("uid")'
      BY <1>3
    <3>2. wk'.todo = S.client.delete
      BY <1>0, <2>1, <2>3, <3>1, DecideRelease
    <3> QED BY <1>1, <1>3, <3>2 DEF Due
  <2>4. CASE ~Begin /\ ~Decide
    <3>1. Due(x)
      BY <1>0, <1>3, <2>1, <2>4, Continues
    <3> QED BY <1>2, <3>1
  <2> QED BY <2>2, <2>3, <2>4
<1>4. ASSUME Due("decide")' \/ Due("delete")' PROVE wk'.at \in {wk'.mr.ext, NoRef}
  <2>1. wk' # Idle
    BY <1>4 DEF Due, Among, Idle
  <2>2. CASE Begin
    BY <1>0, <2>2, BeginTypes
  <2>3. CASE Decide
    <3>1. Due("delete")'
      BY <1>0, <1>4, <2>1, <2>3, DecideDue
    <3>2. wk.how # "none"
      BY <1>0, <2>1, <2>3, <3>1, DecideRelease
    <3> QED BY <1>0, <2>1, <2>3, <3>2, DecideCopies
  <2>4. CASE ~Begin /\ ~Decide
    <3>1. Due("decide") \/ Due("delete")
      BY <1>0, <1>4, <2>1, <2>4, Continues
    <3>2. wk # Idle /\ wk'.mr.ext = wk.mr.ext
      BY <2>1, <2>4, <3>1, ReleaseAlone
    <3>3. wk.at \in {wk.mr.ext, NoRef}
      BY <3>1 DEF ReservedInv
    <3> QED BY <1>0, <1>2, <2>1, <2>4, <3>2, <3>3, AtMoves
  <2> QED BY <2>2, <2>3, <2>4
<1>5. ASSUME Due("put")' \/ Due("delete")', ~Due("resolved")' PROVE ~Untouchable(wk.mr.ext)'
  <2>1. wk' # Idle
    BY <1>5 DEF Due, Among, Idle
  <2>2. ~Begin
    BY <1>0, <1>5, BeginRequests
  <2>3. ~Decide
    <3> SUFFICES ASSUME Decide PROVE FALSE
      OBVIOUS
    <3>1. CASE Due("put")'
      BY <1>0, <1>1, <1>5, <2>1, <3>1, DecidePut
    <3>2. CASE Due("delete")'
      BY <1>0, <1>1, <1>5, <2>1, <3>2, DecideRelease DEF Due
    <3> QED BY <1>5, <3>1, <3>2
  <2>4. wk # Idle /\ (Due("put") \/ Due("delete"))
    BY <1>0, <1>5, <2>1, <2>2, <2>3, Continues
  <2>5. ~Post
    BY <1>0, <2>4, RequestAlone, AtDue DEF Post
  <2>6. ~Put
    <3> SUFFICES ASSUME Put PROVE FALSE
      OBVIOUS
    <3>1. Due("put") /\ Head(wk.todo) = "put" /\ wk'.todo = Tail(wk.todo)
      BY <1>0, <2>1, PutMoves DEF NextStep
    <3>2. wk.todo \in Seq(Steps) /\ wk.todo # <<>>
      BY <1>0, <2>4, UnderWay
    <3>3. ~Due("put")'
      BY <3>1, <3>2, NotLeft DEF AllInv, TwinInv, Due
    <3>4. Due("delete")
      BY <1>0, <1>5, <2>1, <2>2, <2>3, <3>3, Continues
    <3> QED BY <1>0, <3>1, <3>4, RequestAlone
  <2>7. Shrinks
    BY <1>0, <2>5, <2>6, GridMoves DEF Renames
  <2>8. wk'.mr.ext = wk.mr.ext
    BY <1>0, <2>1, <2>3, <2>4, <2>5, <2>6, CopyMoves
  <2>9. ~Untouchable(wk.mr.ext)
    <3>1. CASE Due("resolved")
      <4>1. At("resolved") /\ ~Refuses
        BY <1>0, <1>5, <2>1, <2>2, <2>3, <3>1, CheckTaken
      <4> QED BY <4>1, LifecycleConstants DEF Refuses, Untouchable
    <3>2. CASE ~Due("resolved")
      BY <2>4, <3>2 DEF ReservedInv
    <3> QED BY <3>1, <3>2
  <2> QED BY <2>7, <2>8, <2>9 DEF Untouchable, Shrinks
<1> QED BY <1>3, <1>4, <1>5

LEMMA ReservedNext ==
    ASSUME AllInv, ReservedInv, ChecksInOrder, "rename" \notin AdminOps, [Next]_vars
    PROVE  ReservedInv'
<1>0. WorkInv /\ Reserving' = Reserving /\ Keeping' = Keeping
  BY SameTable DEF AllInv
<1>1. ASSUME Reserving
      PROVE  /\ NoneAfter({"put", "delete"}, {"resolved"}, wk'.todo)
             /\ ~Due("uid")' /\ ~Due("key")'
             /\ Due("decide")' \/ Due("delete")' => wk'.at \in {wk'.mr.ext, NoRef}
             /\ (Due("put")' \/ Due("delete")') /\ ~Due("resolved")' => ~Untouchable(wk.mr.ext)'
  <2>1. NoneAfter({"put", "delete"}, {"resolved"}, wk.todo)
    BY <1>1 DEF ReservedInv
  <2> QED BY <1>0, <1>1, <2>1, ResolvedOrder, ReserveNext
<1>2. ASSUME Keeping
      PROVE  /\ NoneAfter(Lookups \cup {"delete"}, {"wellKnown"}, wk'.todo)
             /\ Due("wellKnown")' => wk'.mr.ext = wk'.at /\ wk'.at \in Ref /\ Mine' \subseteq {wk'.at}
             /\ Due("delete")' /\ ~Due("wellKnown")' =>
                  /\ \A r \in Mine' : r.key # Reserved
                  /\ wk'.at # NoRef => wk'.at.key # Reserved
                  /\ wk'.mr.ext # NoRef => wk'.mr.ext.key # Reserved
  <2>1. NoneAfter(Lookups \cup {"delete"}, {"wellKnown"}, wk.todo)
    BY <1>2 DEF ReservedInv
  <2> QED BY <1>0, <1>2, <2>1, WellKnownOrder, KeepNext
<1> QED BY <1>0, <1>1, <1>2 DEF ReservedInv

LEMMA ReservedInit == Init => ReservedInv
<1> SUFFICES ASSUME Init PROVE ReservedInv
  OBVIOUS
<1>1. \A x : ~Due(x)
  BY DEF Init, Idle, Due, Among
<1>2. \A A, B : NoneAfter(A, B, wk.todo)
  BY DEF Init, Idle, NoneAfter
<1> QED BY <1>1, <1>2 DEF ReservedInv

\* A request leaves what is not to be touched alone.
LEMMA ReservedStep ==
    ASSUME AllInv, ReservedInv, "rename" \notin AdminOps, [Next]_vars, wk # Idle, wk' # wk,
           NEW r \in Ref, r.key = Reserved, Exists(r), grid'[r] # grid[r]
    PROVE  ~Reserving /\ ~(Keeping /\ At("delete"))
<1>0. TypeInv /\ WorkInv /\ grid \in [Ref -> Object \cup {Absent}]
  BY DEF AllInv, WorkInv, TypeInv, TypeOK, Grids
<1>1. Post \/ Put \/ Delete
  BY DEF Next, vars, life, People, Reconcile, NewMR, EditMR, DeleteMR, Unblock, DeleteConfig, ReleaseConfig,
         Admin, Begin, Track, GetConfig, Guard, ByRef, ByUID, ByKey, RefuseKey, Decide, AddFinalizer, Save,
         RemoveFinalizer, Name, Probe, Check, Fail
<1>2. ~Post
  <2> SUFFICES ASSUME Post PROVE FALSE
    OBVIOUS
  <2> DEFINE p == [key |-> wk.mr.key, turn |-> 0]
  <2>1. p \in Ref /\ Named(wk.mr.key) = {} /\ \E v \in Val : grid' = [grid EXCEPT ![p] = [val |-> v, own |-> "mine"]]
    BY <1>0, PostOn
  <2>2. r # p
    BY <2>1 DEF Named
  <2> HIDE DEF p
  <2> QED BY <1>0, <2>1, <2>2
<1>3. ASSUME Reserving, Put PROVE FALSE
  <2>1. /\ wk.mr.ext \in Ref /\ Due("put") /\ Head(wk.todo) = "put"
        /\ wk.todo \in Seq(Steps) /\ wk.todo # <<>>
    BY <1>0, <1>3, PutMoves, UnderWay
  <2>2. ~Due("resolved")
    <3>1. ~Among("resolved", Tail(wk.todo))
      BY <1>3, <2>1, NotLeft DEF ReservedInv
    <3> QED BY <2>1, <3>1, HeadOrLeft DEF Due
  <2>3. ~Untouchable(wk.mr.ext)
    BY <1>3, <2>1, <2>2 DEF ReservedInv
  <2>4. PICK q \in Moves(wk.mr.ext) :
           /\ q \in Ref /\ Exists(wk.mr.ext)
           /\ Renamable => Named(wk.mr.key) \subseteq {wk.mr.ext}
           /\ \A p \in Ref \ {q} : p # wk.mr.ext => grid'[p] = grid[p]
    <3>1. ~(wk' = Idle /\ grid' = grid)
      OBVIOUS
    <3>2. PICK q \in Moves(wk.mr.ext) :
             /\ q \in Ref /\ Exists(wk.mr.ext)
             /\ Renamable => Named(wk.mr.key) \subseteq {wk.mr.ext}
             /\ \E o : grid' = [grid EXCEPT ![wk.mr.ext] = Absent, ![q] = o]
      BY <1>0, <1>3, <3>1, PutMoves
    <3> QED BY <1>0, <2>1, <3>2
  <2>5. wk.mr.ext.key # Reserved
    BY <2>1, <2>3, <2>4 DEF Untouchable
  <2>6. r = q
    BY <2>4, <2>5
  <2>7. CASE Renamable
    <3>1. q.key = wk.mr.key
      BY <2>1, <2>4, <2>7 DEF Moves, Ref
    <3>2. r \in Named(wk.mr.key)
      BY <2>6, <3>1 DEF Named
    <3> QED BY <2>4, <2>5, <2>7, <3>2
  <2>8. CASE ~Renamable
    BY <2>4, <2>5, <2>6, <2>8 DEF Moves
  <2> QED BY <2>7, <2>8
<1>4. ASSUME Delete PROVE /\ wk.at = r /\ Due("delete") /\ Head(wk.todo) = "delete"
                          /\ wk.todo \in Seq(Steps) /\ wk.todo # <<>>
  <2>1. Due("delete") /\ Head(wk.todo) = "delete" /\ wk.todo \in Seq(Steps) /\ wk.todo # <<>>
    BY <1>0, <1>4, AtDue, UnderWay DEF Delete
  <2>2. grid' = [grid EXCEPT ![wk.at] = Absent]
    BY <1>4 DEF Delete
  <2> QED BY <1>0, <2>1, <2>2
<1>5. ASSUME Reserving, Delete PROVE FALSE
  <2>1. ~Due("resolved")
    <3>1. ~Among("resolved", Tail(wk.todo))
      BY <1>4, <1>5, NotLeft DEF ReservedInv
    <3> QED BY <1>4, <1>5, <3>1, HeadOrLeft DEF Due
  <2>2. wk.at = wk.mr.ext
    BY <1>4, <1>5, LifecycleConstants DEF ReservedInv
  <2> QED BY <1>4, <1>5, <2>1, <2>2 DEF ReservedInv, Untouchable
<1>6. ASSUME Keeping, At("delete") PROVE FALSE
  <2>1. Delete
    BY <1>1, <1>2, <1>6 DEF Put, At
  <2>2. ~Due("wellKnown")
    <3>1. ~Among("wellKnown", Tail(wk.todo))
      BY <1>4, <1>6, <2>1, NotLeft DEF ReservedInv
    <3> QED BY <1>4, <2>1, <3>1, HeadOrLeft DEF Due
  <2> QED BY <1>4, <1>6, <2>1, <2>2, LifecycleConstants DEF ReservedInv
<1> QED BY <1>1, <1>2, <1>3, <1>5, <1>6

\* The definition of the identity attribute is never changed or deleted, and no view that
\* the Grid comes with is deleted, for every table that recognises what it is about to
\* send before it sends it: a search that follows the check leads to nothing else, since
\* the resource has one object.
THEOREM ReservedKeptHolds ==
    SearchesInOrder /\ ChecksInOrder /\ "rename" \notin AdminOps => (Spec => ReservedKept)
<1> SUFFICES ASSUME SearchesInOrder, ChecksInOrder, "rename" \notin AdminOps
             PROVE  Spec => ReservedKept
  OBVIOUS
<1>1. AllInv /\ ReservedInv /\ [Next]_vars => ReservedInv'
  BY ReservedNext
<1>2. AllInv /\ ReservedInv /\ [Next]_vars =>
        [\A r \in Ref : r.key = Reserved /\ Exists(r) /\ wk' # wk /\ wk # Idle =>
           \/ grid'[r] = grid[r]
           \/ ~Among("reserved", S.client.update)
                /\ (Among("wellKnown", S.client.delete) => ~At("delete"))]_vars
  BY ReservedStep DEF Reserving, Keeping
<1> QED BY <1>1, <1>2, ReservedInit, TwinHolds, PTL DEF Spec, ReservedKept
=============================================================================
