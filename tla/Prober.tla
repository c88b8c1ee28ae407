------------------------------- MODULE Prober -------------------------------
(***************************************************************************)
(* identity.Prober: does a Grid have the extensible attribute definition   *)
(* that identity stamps need, and may the provider create it?  Reconciles  *)
(* of all kinds call Ensure concurrently on one shared Prober, which       *)
(* caches a verdict per Grid host for a while and serialises the probes of *)
(* one host.                                                               *)
(*                                                                         *)
(* Time passes in ticks.  A cache entry carries the ticks it has left, and *)
(* a verdict the Grid has given reaches the Prober at most MaxLag ticks    *)
(* later (the SDK's request timeout).                                      *)
(***************************************************************************)
EXTENDS Naturals

CONSTANTS
    Call,      \* the reconciles that call Ensure
    Host,      \* Grid hosts, the key of the cache
    HostOf,    \* HostOf[c]: the host of c's ProviderConfig
    CanCreate, \* the calls whose credential is a superuser's
    Nobody,    \* holder of a free lock
    TTL,       \* how long a verdict is trusted
    MaxLag,    \* how long a reply of the Grid takes at most
    MaxFaults, \* bound on failing requests
    MaxAdmin   \* bound on definitions administrators create and delete

ASSUME ProberConstants ==
    /\ HostOf \in [Call -> Host]
    /\ CanCreate \subseteq Call
    /\ Nobody \notin Call
    /\ TTL \in Nat \ {0}
    /\ {MaxLag, MaxFaults, MaxAdmin} \subseteq Nat

VARIABLES
    def,     \* def[h]: the definition exists on Grid h
    gone,    \* gone[h]: ticks since it last did (no further than Horizon)
    cache,   \* cache[h]: the verdict on h and the ticks it has left
    lock,    \* lock[h]: who holds the mutex of h
    pc,      \* pc[c]: where the call c is
    verdict, \* verdict[c]: what c found, or last returned
    lag,     \* lag[c]: ticks since the Grid gave the verdict c is waiting for
    left     \* faults and administrators' operations left

vars == <<def, gone, cache, lock, pc, verdict, lag, left>>

\* nil, *PrerequisiteError, or a wrapped error worth a retry.
Verdict == {"ok", "prereq", "transient"}

\* A definition that went longer ago than this cannot matter to any verdict.
Horizon == TTL + MaxLag + 1

TypeOK ==
    /\ def \in [Host -> BOOLEAN]
    /\ gone \in [Host -> 0..Horizon]
    /\ cache \in [Host -> [err : Verdict, ttl : 0..TTL]]
    /\ lock \in [Host -> Call \cup {Nobody}]
    /\ pc \in [Call -> {"idle", "lock", "recheck", "get", "post", "store"}]
    /\ verdict \in [Call -> Verdict \cup {"none"}]
    /\ lag \in [Call -> 0..MaxLag]
    /\ left \in [fault : Nat, admin : Nat]

Init ==
    /\ def \in [Host -> BOOLEAN]
    /\ gone = [h \in Host |-> IF def[h] THEN 0 ELSE Horizon]
    /\ cache = [h \in Host |-> [err |-> "ok", ttl |-> 0]]
    /\ lock = [h \in Host |-> Nobody]
    /\ pc = [c \in Call |-> "idle"]
    /\ verdict = [c \in Call |-> "none"]
    /\ lag = [c \in Call |-> 0]
    /\ left = [fault |-> MaxFaults, admin |-> MaxAdmin]

-----------------------------------------------------------------------------
Live(h) == cache[h].ttl > 0

Go(c, p) == pc' = [pc EXCEPT ![c] = p]

\* lookup answers from the cache.
Answer(c) == verdict' = [verdict EXCEPT ![c] = cache[HostOf[c]].err]

Unlock(c) == lock' = [lock EXCEPT ![HostOf[c]] = Nobody]

\* Ensure begins with a look at the cache, without the host's lock.
Ensure(c) ==
    /\ pc[c] = "idle"
    /\ \/ Live(HostOf[c]) /\ Answer(c) /\ UNCHANGED pc
       \/ ~Live(HostOf[c]) /\ Go(c, "lock") /\ UNCHANGED verdict
    /\ UNCHANGED <<def, gone, cache, lock, lag, left>>

Lock(c) ==
    /\ pc[c] = "lock"
    /\ lock[HostOf[c]] = Nobody
    /\ lock' = [lock EXCEPT ![HostOf[c]] = c]
    /\ Go(c, "recheck")
    /\ UNCHANGED <<def, gone, cache, verdict, lag, left>>

\* Mutant: the cache is not looked at again under the lock.
Recheck_not(c) ==
    /\ pc[c] = "recheck"
    /\ Go(c, "get")
    /\ UNCHANGED <<def, gone, cache, lock, verdict, lag, left>>

\* Somebody else may have finished the probe while c waited for the lock.
Recheck(c) ==
    /\ pc[c] = "recheck"
    /\ \/ Live(HostOf[c]) /\ Answer(c) /\ Unlock(c) /\ Go(c, "idle")
       \/ ~Live(HostOf[c]) /\ Go(c, "get") /\ UNCHANGED <<verdict, lock>>
    /\ UNCHANGED <<def, gone, cache, lag, left>>

(***************************************************************************)
(* The probe.  Decide: the Grid, or a failing request, settles the verdict *)
(* and Ensure gets to store it up to MaxLag ticks later.                   *)
(***************************************************************************)
Decide(c, v) ==
    /\ verdict' = [verdict EXCEPT ![c] = v]
    /\ lag' = [lag EXCEPT ![c] = 0]
    /\ Go(c, "store")

Fault == left.fault > 0 /\ left' = [left EXCEPT !.fault = @ - 1]

\* Mutant: the error of the check is dropped, and no verdict takes its place.
definitionExists_dropsError(c) ==
    /\ pc[c] = "get"
    /\ \/ Fault /\ Go(c, "store") /\ UNCHANGED <<verdict, lag>>
       \/ def[HostOf[c]] /\ Decide(c, "ok") /\ UNCHANGED left
       \/ ~def[HostOf[c]] /\ Go(c, "post") /\ UNCHANGED <<verdict, lag, left>>
    /\ UNCHANGED <<def, gone, cache, lock>>

definitionExists(c) ==
    /\ pc[c] = "get"
    /\ \/ Fault /\ Decide(c, "transient")
       \/ def[HostOf[c]] /\ Decide(c, "ok") /\ UNCHANGED left
       \/ ~def[HostOf[c]] /\ Go(c, "post") /\ UNCHANGED <<verdict, lag, left>>
    /\ UNCHANGED <<def, gone, cache, lock>>

\* Mutant: any refusal to create the definition is taken for a missing privilege.
createDefinition_anyError(c) ==
    LET h == HostOf[c] IN
    /\ pc[c] = "post"
    /\ \/ Fault /\ Decide(c, "prereq") /\ UNCHANGED <<def, gone>>
       \/ def[h] /\ Decide(c, "ok") /\ UNCHANGED <<def, gone, left>>
       \/ c \notin CanCreate /\ Decide(c, "prereq") /\ UNCHANGED <<def, gone, left>>
       \/ /\ ~def[h] /\ c \in CanCreate
          /\ def' = [def EXCEPT ![h] = TRUE]
          /\ gone' = [gone EXCEPT ![h] = 0]
          /\ Decide(c, "ok")
          /\ UNCHANGED left
    /\ UNCHANGED <<cache, lock>>

\* A create that loses the race to another creator is a success; one without
\* the privilege is a refusal, whichever of the two the Grid checks first.
createDefinition(c) ==
    LET h == HostOf[c] IN
    /\ pc[c] = "post"
    /\ \/ Fault /\ Decide(c, "transient") /\ UNCHANGED <<def, gone>>
       \/ def[h] /\ Decide(c, "ok") /\ UNCHANGED <<def, gone, left>>
       \/ c \notin CanCreate /\ Decide(c, "prereq") /\ UNCHANGED <<def, gone, left>>
       \/ /\ ~def[h] /\ c \in CanCreate
          /\ def' = [def EXCEPT ![h] = TRUE]
          /\ gone' = [gone EXCEPT ![h] = 0]
          /\ Decide(c, "ok")
          /\ UNCHANGED left
    /\ UNCHANGED <<cache, lock>>

\* Mutant: an error extends the verdict that was cached before.
store_extends(c) ==
    LET h == HostOf[c] IN
    /\ pc[c] = "store"
    /\ cache' = [cache EXCEPT ![h] = [err |-> IF verdict[c] = "transient" THEN @.err
                                              ELSE verdict[c], ttl |-> TTL]]
    /\ Unlock(c)
    /\ Go(c, "idle")
    /\ UNCHANGED <<def, gone, verdict, lag, left>>

\* Mutant: a refusal is remembered for good.
store_keepsRefusal(c) ==
    LET h == HostOf[c] IN
    /\ pc[c] = "store"
    /\ cache' = [cache EXCEPT ![h] = [err |-> IF @.err = "prereq" THEN @.err
                                              ELSE verdict[c], ttl |-> TTL]]
    /\ verdict' = [verdict EXCEPT ![c] = cache'[h].err]
    /\ Unlock(c)
    /\ Go(c, "idle")
    /\ UNCHANGED <<def, gone, lag, left>>

\* Every verdict is cached, errors too, and Ensure returns it.
store(c) ==
    /\ pc[c] = "store"
    /\ cache' = [cache EXCEPT ![HostOf[c]] = [err |-> verdict[c], ttl |-> TTL]]
    /\ Unlock(c)
    /\ Go(c, "idle")
    /\ UNCHANGED <<def, gone, verdict, lag, left>>

-----------------------------------------------------------------------------
\* Administrators, and other providers on the same Grid.
Admin(h) ==
    /\ left.admin > 0 /\ left' = [left EXCEPT !.admin = @ - 1]
    /\ def' = [def EXCEPT ![h] = ~@]
    /\ gone' = [gone EXCEPT ![h] = 0]
    /\ UNCHANGED <<cache, lock, pc, verdict, lag>>

Tick ==
    /\ \A c \in Call : pc[c] = "store" => lag[c] < MaxLag
    /\ cache' = [h \in Host |->
                   [cache[h] EXCEPT !.ttl = IF @ > 0 THEN @ - 1 ELSE 0]]
    /\ gone' = [h \in Host |-> IF def[h] \/ gone[h] = Horizon THEN gone[h]
                               ELSE gone[h] + 1]
    /\ lag' = [c \in Call |-> IF pc[c] = "store" THEN lag[c] + 1 ELSE 0]
    /\ UNCHANGED <<def, lock, pc, verdict, left>>

Step(c) == \/ Ensure(c) \/ Lock(c) \/ Recheck(c) \/ definitionExists(c)
           \/ createDefinition(c) \/ store(c)

Next == \/ \E c \in Call : Step(c)
        \/ \E h \in Host : Admin(h)
        \/ Tick

Spec == Init /\ [][Next]_vars

-----------------------------------------------------------------------------
Probing(c) == pc[c] \in {"get", "post", "store"}

\* A burst of calls costs one probe: nobody probes a host whose verdict is
\* still live, and no two calls probe a host at once.
OneProbe ==
    \A c \in Call : Probing(c) =>
        /\ ~Live(HostOf[c])
        /\ \A d \in Call : Probing(d) /\ HostOf[d] = HostOf[c] => d = c

\* A cached approval is never older than its TTL and one reply: the definition
\* was on that Grid that recently.
StaleBounded ==
    \A h \in Host : Live(h) /\ cache[h].err = "ok"
        => gone[h] <= (TTL - cache[h].ttl) + MaxLag

\* PrerequisiteError ("the configured credential cannot create one") is only
\* returned to a caller whose credential indeed cannot.
NoFalseRefusal == \A c \in Call : verdict[c] = "prereq" => c \notin CanCreate

\* The calls that share a host have credentials of the same privilege.
SamePrivilege ==
    \A c, d \in Call : HostOf[c] = HostOf[d] => (c \in CanCreate <=> d \in CanCreate)

\* What makes NoFalseRefusal inductive: a refusal that is cached is true of every call
\* that may be answered with it.
CachedRefusal ==
    \A h \in Host : cache[h].err = "prereq" => \A c \in Call : HostOf[c] = h => c \notin CanCreate

\* What makes OneProbe and StaleBounded inductive: who probes holds the lock,
\* and an approval on its way is as old as the reply carrying it.
LockHeld ==
    \A c \in Call : (pc[c] = "recheck" \/ Probing(c)) <=> lock[HostOf[c]] = c

ReplyAge ==
    /\ \A h \in Host : def[h] => gone[h] = 0
    /\ \A c \in Call : pc[c] = "store" => verdict[c] # "none"
    /\ \A c \in Call : pc[c] = "store" /\ verdict[c] = "ok" => gone[HostOf[c]] <= lag[c]

ProberInv == TypeOK /\ LockHeld /\ OneProbe /\ ReplyAge /\ StaleBounded

(***************************************************************************)
(* Reconciles are retried for ever, goroutines are scheduled fairly, Go's  *)
(* mutexes do not starve a waiter, and time passes.                        *)
(***************************************************************************)
Fairness == /\ \A c \in Call : WF_vars(Ensure(c) \/ Recheck(c) \/ definitionExists(c)
                                         \/ createDefinition(c) \/ store(c))
            /\ \A c \in Call : SF_vars(Lock(c))
            /\ WF_vars(Tick)

FairSpec == Spec /\ Fairness

\* A refusal or an error never outlives its TTL: once the definition is there
\* to stay, every caller is eventually told so for good.
Recovers == \A c \in Call : <>[]def[HostOf[c]] => <>[](verdict[c] = "ok")
=============================================================================
