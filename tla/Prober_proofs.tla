---------------------------- MODULE Prober_proofs ----------------------------
(***************************************************************************)
(* OneProbe and StaleBounded, for any number of callers and hosts, any TTL *)
(* and any reply time.  The invariant adds to them that exactly the calls  *)
(* between Lock and Unlock hold their host's mutex (LockHeld), and how old *)
(* an approval is that has not been stored yet (ReplyAge).                 *)
(***************************************************************************)
EXTENDS Prober, TLAPS

\* Init establishes the invariant: nothing is cached and nobody holds a lock.
LEMMA ProberInit == Init => ProberInv
<1> SUFFICES ASSUME Init PROVE ProberInv
  OBVIOUS
<1>1. TypeOK
  BY ProberConstants DEF Init, TypeOK, Verdict, Horizon
<1>2. LockHeld /\ OneProbe /\ StaleBounded
  BY ProberConstants DEF Init, LockHeld, OneProbe, StaleBounded, Probing, Live
<1>3. ReplyAge
  BY ProberConstants DEF Init, ReplyAge
<1> QED
  BY <1>1, <1>2, <1>3 DEF ProberInv

\* The first look of Ensure touches neither Grid, cache nor lock.
LEMMA EnsureInv == ASSUME ProberInv, NEW c \in Call, Ensure(c) PROVE ProberInv'
<1>1. TypeOK'
  <2>1. HostOf[c] \in Host /\ cache[HostOf[c]].err \in Verdict \cup {"none"}
    BY ProberConstants DEF ProberInv, TypeOK
  <2>2. /\ verdict' \in [Call -> Verdict \cup {"none"}]
        /\ pc' \in [Call -> {"idle", "lock", "recheck", "get", "post", "store"}]
    BY <2>1 DEF ProberInv, TypeOK, Ensure, Answer, Go
  <2> QED BY <2>2 DEF ProberInv, TypeOK, Ensure
<1>2. LockHeld' /\ OneProbe'
  BY DEF ProberInv, TypeOK, LockHeld, OneProbe, Ensure, Answer, Go, Probing, Live
<1>3. ReplyAge' /\ StaleBounded'
  BY DEF ProberInv, TypeOK, ReplyAge, StaleBounded, Ensure, Answer, Go, Live
<1> QED BY <1>1, <1>2, <1>3 DEF ProberInv

\* Taking the mutex.
LEMMA LockInv == ASSUME ProberInv, NEW c \in Call, Lock(c) PROVE ProberInv'
<1>1. TypeOK'
  BY ProberConstants DEF ProberInv, TypeOK, Lock, Go
<1>2. /\ pc'[c] = "recheck" /\ lock'[HostOf[c]] = c
      /\ lock[HostOf[c]] \notin Call /\ HostOf[c] \in Host
      /\ \A d \in Call \ {c} : pc'[d] = pc[d]
      /\ \A h \in Host \ {HostOf[c]} : lock'[h] = lock[h]
      /\ \A d \in Call : HostOf[d] \in Host
  BY ProberConstants DEF ProberInv, TypeOK, Lock, Go
<1>4. LockHeld'
  BY <1>2 DEF ProberInv, LockHeld, Probing
<1>5. OneProbe'
  BY <1>2 DEF ProberInv, OneProbe, Lock, Probing, Live
<1>3. ReplyAge' /\ StaleBounded'
  BY DEF ProberInv, TypeOK, ReplyAge, StaleBounded, Lock, Go, Live
<1> QED BY <1>1, <1>3, <1>4, <1>5 DEF ProberInv

\* The second look, under the mutex: only a host without a live verdict is probed.
LEMMA RecheckInv == ASSUME ProberInv, NEW c \in Call, Recheck(c) PROVE ProberInv'
<1>1. TypeOK'
  <2>1. HostOf[c] \in Host /\ cache[HostOf[c]].err \in Verdict \cup {"none"}
    BY ProberConstants DEF ProberInv, TypeOK
  <2>2. /\ verdict' \in [Call -> Verdict \cup {"none"}]
        /\ lock' \in [Host -> Call \cup {Nobody}]
        /\ pc' \in [Call -> {"idle", "lock", "recheck", "get", "post", "store"}]
    BY <2>1 DEF ProberInv, TypeOK, Recheck, Answer, Unlock, Go
  <2> QED BY <2>2 DEF ProberInv, TypeOK, Recheck
<1>2. LockHeld'
  BY ProberConstants
     DEF ProberInv, TypeOK, LockHeld, Recheck, Answer, Unlock, Go, Probing
<1>3. OneProbe'
  BY ProberConstants
     DEF ProberInv, TypeOK, LockHeld, OneProbe, Recheck, Answer, Unlock, Go, Probing, Live
<1>4. ReplyAge' /\ StaleBounded'
  BY DEF ProberInv, TypeOK, ReplyAge, StaleBounded, Recheck, Answer, Unlock, Go, Live
<1> QED BY <1>1, <1>2, <1>3, <1>4 DEF ProberInv

\* The GET of the definition: an approval starts with age 0.
LEMMA ExistsInv == ASSUME ProberInv, NEW c \in Call, definitionExists(c) PROVE ProberInv'
<1>1. TypeOK'
  <2>1. left' \in [fault : Nat, admin : Nat]
    BY DEF ProberInv, TypeOK, definitionExists, Fault
  <2>2. /\ verdict' \in [Call -> Verdict \cup {"none"}]
        /\ pc' \in [Call -> {"idle", "lock", "recheck", "get", "post", "store"}]
    BY DEF ProberInv, TypeOK, definitionExists, Decide, Go, Verdict
  <2>3. lag' \in [Call -> 0..MaxLag]
    <3>1. 0 \in 0..MaxLag
      BY ProberConstants
    <3> QED BY <3>1 DEF ProberInv, TypeOK, definitionExists, Decide
  <2> QED BY <2>1, <2>2, <2>3 DEF ProberInv, TypeOK, definitionExists
<1>2. LockHeld' /\ OneProbe'
  BY DEF ProberInv, TypeOK, LockHeld, OneProbe, definitionExists, Fault, Decide, Go,
         Probing, Live
<1>3. ReplyAge' /\ StaleBounded'
  BY ProberConstants
     DEF ProberInv, TypeOK, ReplyAge, StaleBounded, definitionExists, Fault, Decide, Go,
         Live, Verdict
<1> QED BY <1>1, <1>2, <1>3 DEF ProberInv

\* The POST of the definition.
LEMMA CreateInv == ASSUME ProberInv, NEW c \in Call, createDefinition(c) PROVE ProberInv'
<1>1. TypeOK'
  <2>1. left' \in [fault : Nat, admin : Nat]
    BY DEF ProberInv, TypeOK, createDefinition, Fault
  <2>2. /\ verdict' \in [Call -> Verdict \cup {"none"}]
        /\ pc' \in [Call -> {"idle", "lock", "recheck", "get", "post", "store"}]
    BY DEF ProberInv, TypeOK, createDefinition, Decide, Go, Verdict
  <2>3. lag' \in [Call -> 0..MaxLag]
    <3>1. 0 \in 0..MaxLag
      BY ProberConstants
    <3> QED BY <3>1 DEF ProberInv, TypeOK, createDefinition, Decide
  <2>4. def' \in [Host -> BOOLEAN]
    BY DEF ProberInv, TypeOK, createDefinition
  <2>5. gone' \in [Host -> 0..Horizon]
    <3>1. 0 \in 0..Horizon
      BY ProberConstants DEF Horizon
    <3> QED BY <3>1 DEF ProberInv, TypeOK, createDefinition
  <2> QED BY <2>1, <2>2, <2>3, <2>4, <2>5 DEF ProberInv, TypeOK, createDefinition
<1>2. LockHeld' /\ OneProbe'
  BY DEF ProberInv, TypeOK, LockHeld, OneProbe, createDefinition, Fault, Decide, Go,
         Probing, Live
<1>3. /\ \A h \in Host : def[h] \/ def'[h] => gone'[h] = 0
      /\ \A h \in Host : gone'[h] \in {gone[h], 0} /\ gone'[h] <= gone[h]
      /\ \A d \in Call \ {c} : pc'[d] = pc[d] /\ verdict'[d] = verdict[d] /\ lag'[d] = lag[d]
      /\ pc'[c] = "store" /\ verdict'[c] \in Verdict /\ lag'[c] = 0 /\ cache' = cache
      /\ verdict'[c] = "ok" => gone'[HostOf[c]] = 0
  BY ProberConstants
     DEF ProberInv, TypeOK, ReplyAge, createDefinition, Fault, Decide, Go, Verdict, Horizon
<1>4. ReplyAge'
  <2>1. \A h \in Host : def'[h] => gone'[h] = 0
    BY <1>3
  <2>2. \A d \in Call : pc'[d] = "store" => verdict'[d] # "none"
    BY <1>3 DEF ProberInv, ReplyAge, Verdict
  <2>3. \A h \in Host : gone[h] \in Nat /\ gone'[h] \in Nat
    BY <1>3, ProberConstants DEF ProberInv, TypeOK, Horizon
  <2>4. \A d \in Call : HostOf[d] \in Host /\ lag[d] \in Nat
    BY ProberConstants DEF ProberInv, TypeOK
  <2>5. \A d \in Call : pc'[d] = "store" /\ verdict'[d] = "ok"
                           => gone'[HostOf[d]] <= lag'[d]
    BY <1>3, <2>3, <2>4 DEF ProberInv, ReplyAge
  <2> QED BY <2>1, <2>2, <2>5 DEF ReplyAge
<1>5. StaleBounded'
  BY <1>1, <1>3, ProberConstants DEF ProberInv, TypeOK, StaleBounded, Live, Horizon
<1> QED BY <1>1, <1>2, <1>4, <1>5 DEF ProberInv

\* The verdict is stored, and the mutex released.
LEMMA StoreInv == ASSUME ProberInv, NEW c \in Call, store(c) PROVE ProberInv'
<1> DEFINE h == HostOf[c]
<1>0. h \in Host /\ verdict[c] \in Verdict /\ TTL \in 0..TTL
  BY ProberConstants DEF ProberInv, TypeOK, ReplyAge, store
<1>1. TypeOK'
  BY <1>0, ProberConstants DEF ProberInv, TypeOK, store, Unlock, Go
<1>2. LockHeld'
  BY <1>0, ProberConstants
     DEF ProberInv, TypeOK, LockHeld, OneProbe, store, Unlock, Go, Probing
<1>3. OneProbe'
  BY <1>0, ProberConstants
     DEF ProberInv, TypeOK, LockHeld, OneProbe, store, Unlock, Go, Probing, Live
<1>4. ReplyAge'
  BY DEF ProberInv, TypeOK, ReplyAge, store, Go
<1>5. StaleBounded'
  <2>1. verdict[c] = "ok" => gone[h] <= MaxLag
    BY <1>0, ProberConstants DEF ProberInv, TypeOK, ReplyAge, store, Horizon
  <2>2. /\ cache'[h].err = verdict[c] /\ cache'[h].ttl = TTL /\ gone' = gone
        /\ \A k \in Host \ {h} : cache'[k] = cache[k]
    BY <1>0 DEF ProberInv, TypeOK, store
  <2> QED
    BY <1>0, <2>1, <2>2, ProberConstants DEF ProberInv, TypeOK, StaleBounded, Live, Horizon
<1> QED BY <1>1, <1>2, <1>3, <1>4, <1>5 DEF ProberInv

\* Administrators create and delete definitions.
LEMMA AdminInv == ASSUME ProberInv, NEW h \in Host, Admin(h) PROVE ProberInv'
<1>1. TypeOK'
  BY ProberConstants DEF ProberInv, TypeOK, Admin, Horizon
<1>2. LockHeld' /\ OneProbe'
  BY DEF ProberInv, LockHeld, OneProbe, Admin, Probing, Live
<1>3. ReplyAge'
  BY ProberConstants DEF ProberInv, TypeOK, ReplyAge, Admin, Horizon
<1>4. StaleBounded'
  BY ProberConstants DEF ProberInv, TypeOK, StaleBounded, Admin, Live, Horizon
<1> QED BY <1>1, <1>2, <1>3, <1>4 DEF ProberInv

\* Time passes: a verdict and the age of what it vouches for move together.
LEMMA TickInv == ASSUME ProberInv, Tick PROVE ProberInv'
<1>0. /\ \A h \in Host :
           /\ cache[h].ttl \in 0..TTL /\ cache[h].err \in Verdict
           /\ cache'[h].err = cache[h].err
           /\ cache'[h].ttl = IF cache[h].ttl > 0 THEN cache[h].ttl - 1 ELSE 0
      /\ UNCHANGED <<def, lock, pc, verdict, left>>
  BY DEF ProberInv, TypeOK, Tick
<1>a. TTL \in Nat /\ MaxLag \in Nat /\ Horizon \in Nat /\ HostOf \in [Call -> Host]
  BY ProberConstants DEF Horizon
<1>b. \A h \in Host : /\ gone[h] \in 0..Horizon
                       /\ gone'[h] = IF def[h] \/ gone[h] = Horizon THEN gone[h]
                                     ELSE gone[h] + 1
  BY DEF ProberInv, TypeOK, Tick
<1>c. \A c \in Call : lag[c] \in 0..MaxLag
  BY DEF ProberInv, TypeOK
<1>d. \A c \in Call : lag'[c] = IF pc[c] = "store" THEN lag[c] + 1 ELSE 0
  BY DEF Tick
<1>e. \A c \in Call : pc[c] = "store" => lag[c] < MaxLag
  BY DEF Tick
<1>1. TypeOK'
  <2>1. cache' \in [Host -> [err : Verdict, ttl : 0..TTL]]
    <3>1. ASSUME NEW h \in Host PROVE cache[h] \in [err : Verdict, ttl : 0..TTL]
      BY DEF ProberInv, TypeOK
    <3>2. ASSUME NEW h \in Host
          PROVE (IF cache[h].ttl > 0 THEN cache[h].ttl - 1 ELSE 0) \in 0..TTL
      BY <1>0, <1>a
    <3>3. ASSUME NEW h \in Host
          PROVE [cache[h] EXCEPT !.ttl = IF @ > 0 THEN @ - 1 ELSE 0]
                  \in [err : Verdict, ttl : 0..TTL]
      BY <3>1, <3>2
    <3> QED BY <3>3 DEF Tick
  <2>2. gone' \in [Host -> 0..Horizon]
    <3>1. \A h \in Host : gone'[h] \in 0..Horizon
      BY <1>a, <1>b
    <3> QED BY <3>1 DEF Tick
  <2>3. lag' \in [Call -> 0..MaxLag]
    <3>1. ASSUME NEW c \in Call PROVE lag'[c] \in 0..MaxLag
      <4>1. CASE pc[c] = "store"
        BY <4>1, <1>a, <1>c, <1>d, <1>e
      <4>2. CASE pc[c] # "store"
        BY <4>2, <1>a, <1>d
      <4> QED BY <4>1, <4>2
    <3> QED BY <3>1 DEF Tick
  <2> QED BY <1>0, <2>1, <2>2, <2>3 DEF ProberInv, TypeOK
<1>2. LockHeld' /\ OneProbe'
  BY <1>0, ProberConstants DEF ProberInv, TypeOK, LockHeld, OneProbe, Probing, Live
<1>3. ReplyAge'
  BY <1>0, ProberConstants DEF ProberInv, TypeOK, ReplyAge, Tick, Horizon
<1>4. StaleBounded'
  <2> SUFFICES ASSUME NEW h \in Host, cache'[h].ttl > 0, cache'[h].err = "ok"
               PROVE gone'[h] <= (TTL - cache'[h].ttl) + MaxLag
    BY DEF StaleBounded, Live
  <2>1. cache[h].ttl > 0 /\ cache'[h].ttl = cache[h].ttl - 1 /\ cache[h].err = "ok"
    BY <1>0
  <2>2. gone[h] <= (TTL - cache[h].ttl) + MaxLag
    BY <2>1 DEF ProberInv, StaleBounded, Live
  <2> QED BY <1>0, <1>a, <1>b, <2>1, <2>2
<1> QED BY <1>1, <1>2, <1>3, <1>4 DEF ProberInv

\* The invariant is inductive: one lemma per action.
LEMMA ProberNext == ProberInv /\ [Next]_vars => ProberInv'
<1> SUFFICES ASSUME ProberInv, [Next]_vars PROVE ProberInv'
  OBVIOUS
<1>1. CASE UNCHANGED vars
  BY <1>1 DEF vars, ProberInv, TypeOK, LockHeld, OneProbe, ReplyAge, StaleBounded,
     Probing, Live
<1>2. CASE Next
  BY <1>2, EnsureInv, LockInv, RecheckInv, ExistsInv, CreateInv, StoreInv, AdminInv,
     TickInv DEF Next, Step
<1> QED BY <1>1, <1>2

\* However many reconciles call Ensure at once, a host is probed by one of them
\* at a time and never while its verdict is live.
THEOREM OneProbeHolds == Spec => []OneProbe
<1>1. ProberInv => OneProbe
  BY DEF ProberInv
<1> QED
  BY <1>1, ProberInit, ProberNext, PTL DEF Spec

\* Whatever administrators delete, an approval Ensure answers with from its cache
\* is at most one TTL and one reply older than the definition it vouches for.
THEOREM StaleBoundedHolds == Spec => []StaleBounded
<1>1. ProberInv => StaleBounded
  BY DEF ProberInv
<1> QED
  BY <1>1, ProberInit, ProberNext, PTL DEF Spec

-----------------------------------------------------------------------------
\* Every variable keeps its type: in particular a call that stores a verdict has one.
THEOREM TypeCorrect == Spec => []TypeOK
<1>1. ProberInv => TypeOK
  BY DEF ProberInv
<1> QED
  BY <1>1, ProberInit, ProberNext, PTL DEF Spec

\* The verdict of a refused POST is true of its caller; what is stored of it is true of
\* every caller of the host, and so is what lookup answers.
LEMMA RefusalStep ==
    ASSUME SamePrivilege, TypeOK, CachedRefusal, NoFalseRefusal, [Next]_vars
    PROVE  CachedRefusal' /\ NoFalseRefusal'
<1>0. \A c \in Call : HostOf[c] \in Host
  BY ProberConstants
<1>1. CASE \E c \in Call : Ensure(c) \/ Lock(c) \/ Recheck(c)
  <2>1. PICK c \in Call : Ensure(c) \/ Lock(c) \/ Recheck(c)
    BY <1>1
  <2>2. /\ cache' = cache
        /\ verdict' = verdict \/ verdict' = [verdict EXCEPT ![c] = cache[HostOf[c]].err]
    BY <2>1 DEF Ensure, Lock, Recheck, Answer
  <2>3. \A d \in Call : verdict'[d] = "prereq" =>
           verdict[d] = "prereq" \/ cache[HostOf[d]].err = "prereq"
    BY <2>2 DEF TypeOK
  <2> QED
    BY <1>0, <2>2, <2>3 DEF CachedRefusal, NoFalseRefusal
<1>2. CASE \E c \in Call : definitionExists(c) \/ createDefinition(c)
  <2>1. PICK c \in Call : definitionExists(c) \/ createDefinition(c)
    BY <1>2
  <2>2. /\ cache' = cache
        /\ \A d \in Call \ {c} : verdict'[d] = verdict[d]
        /\ verdict'[c] = "prereq" => verdict[c] = "prereq" \/ c \notin CanCreate
    BY <2>1 DEF TypeOK, definitionExists, createDefinition, Decide
  <2> QED
    BY <2>2 DEF CachedRefusal, NoFalseRefusal
<1>3. CASE \E c \in Call : store(c)
  <2>1. PICK c \in Call : store(c)
    BY <1>3
  <2>2. /\ verdict' = verdict
        /\ cache'[HostOf[c]].err = verdict[c]
        /\ \A h \in Host \ {HostOf[c]} : cache'[h] = cache[h]
    BY <1>0, <2>1 DEF TypeOK, store
  <2>3. verdict[c] = "prereq" => \A d \in Call : HostOf[d] = HostOf[c] => d \notin CanCreate
    BY DEF NoFalseRefusal, SamePrivilege
  <2> QED
    BY <2>2, <2>3 DEF CachedRefusal, NoFalseRefusal
<1>4. CASE Tick
  <2>1. verdict' = verdict /\ \A h \in Host : cache'[h].err = cache[h].err
    BY <1>4 DEF TypeOK, Tick
  <2> QED
    BY <2>1 DEF CachedRefusal, NoFalseRefusal
<1>5. CASE (\E h \in Host : Admin(h)) \/ UNCHANGED vars
  BY <1>5 DEF Admin, vars, CachedRefusal, NoFalseRefusal
<1> QED
  BY <1>1, <1>2, <1>3, <1>4, <1>5 DEF Next, Step

\* Where all credentials of a host have the same privilege, PrerequisiteError is returned
\* only to a caller that indeed cannot create the definition, whoever probed, and however
\* the definition came and went since.  Without that hypothesis it does not hold: the
\* cache is keyed by the host alone.
THEOREM NoFalseRefusalHolds == SamePrivilege => (Spec => []NoFalseRefusal)
<1> SUFFICES ASSUME SamePrivilege PROVE Spec => []NoFalseRefusal
  OBVIOUS
<1>1. Init => CachedRefusal /\ NoFalseRefusal
  BY DEF Init, CachedRefusal, NoFalseRefusal
<1>2. TypeOK /\ CachedRefusal /\ NoFalseRefusal /\ [Next]_vars
        => CachedRefusal' /\ NoFalseRefusal'
  BY RefusalStep
<1> QED
  BY <1>1, <1>2, TypeCorrect, PTL DEF Spec
==============================================================================
