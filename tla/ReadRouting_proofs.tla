------------------------- MODULE ReadRouting_proofs -------------------------
(***************************************************************************)
(* ReadYourWrites, for any number of resources, writes, failures and any   *)
(* delays, as long as the zone's serial does not wrap around (NoWrap).     *)
(*                                                                         *)
(* The argument: the watermark RecordWrite stores is at least the serial   *)
(* of the change it is for, since the primary only moves on (Covered), so  *)
(* a candidate that reports the watermark has the change; and what the     *)
(* gate has decided stays right until the read, since the candidate only   *)
(* moves on as well (Cautious).                                            *)
(***************************************************************************)
EXTENDS ReadRouting, TLAPS

NoWrap == FirstSerial + MaxWrites < SerialMod

PCs == {"idle", "record", "serials", "reader", "read"}

\* Without a wrap, serials order changes.
LEMMA SerialOrder ==
    ASSUME NoWrap, NEW n \in 0..MaxWrites
    PROVE  Serial(n) = FirstSerial + n
<1>1. FirstSerial \in Nat /\ MaxWrites \in Nat /\ SerialMod \in Nat
  BY RoutingConstants
<1>2. FirstSerial + n \in Nat /\ FirstSerial + n < SerialMod
  BY <1>1 DEF NoWrap
<1>3. \A k, m \in Nat : k < m => k % m = k
  BY SMT
<1> QED
  BY <1>1, <1>2, <1>3 DEF Serial

\* The breaker's methods return breakers.
LEMMA BreakerTyped ==
    ASSUME NEW b \in Breaker
    PROVE  /\ RecordSuccess(b) \in Breaker /\ RecordFailure(b) \in Breaker
           /\ Asked(b) \in Breaker /\ Elapse(b) \in Breaker
<1>1. /\ b.failures \in 0..MaxCount /\ b.until \in 0..(Backoff + 1) \cup {NoTime}
      /\ MaxCount \in Nat /\ Backoff \in Nat /\ Backoff + 1 \in 0..(Backoff + 1)
      /\ NoTime \notin Nat
  BY BreakerConstants DEF Breaker
<1>2. Failures(b) \in 0..MaxCount
  BY <1>1 DEF Failures
<1>3. RecordSuccess(b) \in Breaker
  BY <1>1 DEF RecordSuccess, Breaker
<1>4. RecordFailure(b) \in Breaker
  BY <1>1, <1>2 DEF RecordFailure, Breaker
<1>5. Asked(b) \in Breaker
  BY DEF Asked, Breaker
<1>6. Elapse(b) \in Breaker
  <2> DEFINE u == IF b.until = NoTime \/ b.until = 0 THEN b.until ELSE b.until - 1
  <2>1. u \in 0..(Backoff + 1) \cup {NoTime}
    BY <1>1
  <2>2. Elapse(b) = [b EXCEPT !.until = u]
    BY DEF Elapse
  <2> HIDE DEF u
  <2> QED BY <2>1, <2>2 DEF Breaker
<1> QED
  BY <1>3, <1>4, <1>5, <1>6

\* Spending one of the bounds.
LEMMA SpendBounded ==
    ASSUME TypeOK, NEW k \in {"record", "tamper", "zone", "outage"}, Spend(k)
    PROVE  left' \in [{"record", "tamper", "zone", "outage"} -> 0..MaxFaults]
<1>1. left[k] \in 0..MaxFaults /\ left[k] > 0 /\ MaxFaults \in Nat
  BY RoutingConstants DEF TypeOK, Spend
<1>2. left[k] - 1 \in 0..MaxFaults
  BY <1>1
<1> QED
  BY <1>2 DEF TypeOK, Spend

-----------------------------------------------------------------------------
\* Nothing is written, so nothing is missing.
LEMMA RoutingInit == Init => RoutingInv
<1> SUFFICES ASSUME Init PROVE RoutingInv
  OBVIOUS
<1>1. TypeOK
  BY RoutingConstants, BreakerConstants DEF Init, TypeOK, NewCircuitBreaker, Breaker
<1>2. ASSUME NEW r \in Resource
      PROVE  /\ written[r] <= primary /\ pc[r] = "idle"
             /\ Covered(r) /\ Cautious(r)
  BY DEF Init, Covered, Cautious
<1> QED
  BY <1>1, <1>2 DEF RoutingInv

\* The candidate gets another change.
LEMMA ReplicateInv == ASSUME RoutingInv, Replicate PROVE RoutingInv'
<1>1. /\ primary \in 0..MaxWrites /\ candidate \in 0..primary /\ primary \in Nat
      /\ candidate' = candidate + 1 /\ candidate < primary
      /\ \A r \in Resource : written[r] \in 0..MaxWrites
  BY RoutingConstants DEF RoutingInv, TypeOK, Replicate
<1>2. candidate' \in 0..primary
  BY <1>1
<1>3. TypeOK'
  BY <1>2 DEF RoutingInv, TypeOK, Replicate
<1>4. \A r \in Resource : Covered(r)' /\ Cautious(r)'
  BY <1>1, RoutingConstants DEF RoutingInv, Replicate, Covered, Cautious
<1> QED
  BY <1>3, <1>4 DEF RoutingInv, Replicate

\* Outages, and changes to the zone's members, touch neither changes nor marks.
LEMMA FailureInv == ASSUME RoutingInv, Outage \/ Restore \/ Reassign PROVE RoutingInv'
<1>1. /\ left' \in [{"record", "tamper", "zone", "outage"} -> 0..MaxFaults]
      /\ up' \in BOOLEAN /\ zone' \in {"served", "unlisted", "unserved"}
      /\ UNCHANGED <<primary, candidate, written, lost, mark, breaker, pc, route>>
  BY SpendBounded DEF RoutingInv, TypeOK, Outage, Restore, Reassign
<1> QED
  BY <1>1 DEF RoutingInv, TypeOK, Covered, Cautious

\* A damaged annotation is no approval.
LEMMA TamperInv == ASSUME RoutingInv, NEW r \in Resource, Tamper(r) PROVE RoutingInv'
<1>1. /\ left' \in [{"record", "tamper", "zone", "outage"} -> 0..MaxFaults]
      /\ mark' \in [Resource -> Pending \cup {None, Corrupt}]
      /\ mark'[r] = Corrupt /\ pc[r] = "idle"
      /\ \A s \in Resource \ {r} : mark'[s] = mark[s]
      /\ UNCHANGED <<grid, written, lost, breaker, pc, route>>
  BY SpendBounded DEF RoutingInv, TypeOK, Tamper, SetMark, At
<1> QED
  BY <1>1 DEF RoutingInv, TypeOK, Covered, Cautious, grid

\* Watermarks age, and keep their serials.
LEMMA TickInv == ASSUME RoutingInv, Tick PROVE RoutingInv'
<1>1. /\ breaker' \in Breaker
      /\ UNCHANGED <<grid, written, lost, pc, route, left>>
  BY BreakerTyped DEF RoutingInv, TypeOK, Tick
<1>2. ASSUME NEW r \in Resource
      PROVE  /\ mark'[r] \in Pending \cup {None, Corrupt}
             /\ mark[r] \in Pending => mark'[r] \in Pending /\ mark'[r].serial = mark[r].serial
             /\ mark[r] \notin Pending => mark'[r] = mark[r]
  <2>1. mark'[r] = IF mark[r] \in Pending /\ mark[r].age <= Timeout
                   THEN [mark[r] EXCEPT !.age = @ + 1] ELSE mark[r]
    BY DEF Tick
  <2>2. CASE mark[r] \in Pending /\ mark[r].age <= Timeout
    <3>1. mark[r].age + 1 \in 0..(Timeout + 1) /\ mark[r].serial \in Nat
      BY <2>2, RoutingConstants DEF Pending
    <3> QED
      BY <2>1, <2>2, <3>1 DEF Pending
  <2>3. CASE ~(mark[r] \in Pending /\ mark[r].age <= Timeout)
    BY <2>1, <2>3 DEF RoutingInv, TypeOK
  <2> QED BY <2>2, <2>3
<1>3. mark' \in [Resource -> Pending \cup {None, Corrupt}]
  BY <1>2 DEF Tick
<1>4. TypeOK'
  BY <1>1, <1>3 DEF RoutingInv, TypeOK, grid
<1>5. \A r \in Resource : Covered(r)' /\ Cautious(r)'
                          /\ (pc[r] = "serials" => mark'[r] \in Pending)
  <2> SUFFICES ASSUME NEW r \in Resource
               PROVE  /\ Covered(r)' /\ Cautious(r)'
                      /\ pc[r] = "serials" => mark'[r] \in Pending
    OBVIOUS
  <2>1. /\ Covered(r) /\ Cautious(r) /\ (pc[r] = "serials" => mark[r] \in Pending)
        /\ mark[r] \in Pending => mark'[r] \in Pending /\ mark'[r].serial = mark[r].serial
        /\ mark[r] \notin Pending => mark'[r] = mark[r]
    BY <1>2 DEF RoutingInv
  <2>2. Corrupt \notin Pending
    BY RoutingConstants
  <2> QED
    BY <1>1, <2>1, <2>2 DEF Covered, Cautious, grid
<1> QED
  BY <1>1, <1>4, <1>5 DEF RoutingInv, grid

\* A step of r that leaves the changes alone keeps the invariant of the others.
LEMMA RoutingLift ==
    ASSUME RoutingInv, TypeOK', NEW r \in Resource,
           UNCHANGED <<primary, candidate, written>>,
           \A s \in Resource \ {r} : /\ lost'[s] = lost[s] /\ mark'[s] = mark[s]
                                     /\ pc'[s] = pc[s] /\ route'[s] = route[s],
           pc'[r] = "serials" => mark'[r] \in Pending,
           Covered(r)', Cautious(r)'
    PROVE  RoutingInv'
  BY DEF RoutingInv, Covered, Cautious

\* A new change, not covered yet.
LEMMA WriteInv == ASSUME RoutingInv, NEW r \in Resource, Write(r) PROVE RoutingInv'
<1>1. /\ primary \in 0..MaxWrites /\ MaxWrites \in Nat /\ primary < MaxWrites
      /\ candidate \in 0..primary /\ primary' = primary + 1 /\ candidate' = candidate
  BY RoutingConstants DEF RoutingInv, TypeOK, Write
<1>2. primary' \in 0..MaxWrites /\ candidate' \in 0..primary' /\ primary + 1 \in 0..MaxWrites
  BY <1>1
<1>3. /\ written' \in [Resource -> 0..MaxWrites] /\ lost' \in [Resource -> BOOLEAN]
      /\ pc' \in [Resource -> PCs]
      /\ written'[r] = primary' /\ pc'[r] = "record"
      /\ \A s \in Resource \ {r} : /\ written'[s] = written[s] /\ pc'[s] = pc[s]
                                   /\ lost'[s] = lost[s]
      /\ UNCHANGED <<up, zone, mark, breaker, route, left>>
  BY <1>1, <1>2 DEF RoutingInv, TypeOK, Write, Lose, Go, PCs
<1>4. TypeOK'
  BY <1>2, <1>3 DEF RoutingInv, TypeOK, PCs
<1>5. \A s \in Resource : written'[s] <= primary'
  BY <1>1, <1>2, <1>3 DEF RoutingInv, TypeOK
<1>6. \A s \in Resource : /\ Covered(s)' /\ Cautious(s)'
                          /\ pc'[s] = "serials" => mark'[s] \in Pending
  BY <1>1, <1>3 DEF RoutingInv, Covered, Cautious
<1> QED
  BY <1>4, <1>5, <1>6 DEF RoutingInv

\* The watermark is the primary's serial, no lower than that of r's change.
LEMMA RecordWriteInv ==
    ASSUME NoWrap, RoutingInv, NEW r \in Resource, RecordWrite(r) PROVE RoutingInv'
<1>1. /\ Serial(primary) = FirstSerial + primary /\ Serial(primary) \in Nat
      /\ FirstSerial \in Nat /\ primary \in Nat
      /\ written[r] \in Nat /\ written[r] <= primary
  BY SerialOrder, RoutingConstants DEF RoutingInv, TypeOK
<1>2. [serial |-> Serial(primary), age |-> 0] \in Pending
  BY <1>1, RoutingConstants DEF Pending
<1>3. left' \in [{"record", "tamper", "zone", "outage"} -> 0..MaxFaults]
  BY SpendBounded DEF RoutingInv, TypeOK, RecordWrite
<1>4. /\ mark' \in [Resource -> Pending \cup {None, Corrupt}]
      /\ lost' \in [Resource -> BOOLEAN] /\ pc' \in [Resource -> PCs]
      /\ pc'[r] = "idle"
      /\ \A s \in Resource \ {r} : /\ lost'[s] = lost[s] /\ mark'[s] = mark[s]
                                   /\ pc'[s] = pc[s]
      /\ UNCHANGED <<grid, written, breaker, route>>
  BY <1>2 DEF RoutingInv, TypeOK, RecordWrite, SetMark, Lose, Go, PCs
<1>5. lost'[r] \/ mark'[r] = [serial |-> Serial(primary), age |-> 0]
  BY DEF RoutingInv, TypeOK, RecordWrite, SetMark, Lose
<1>6. TypeOK'
  BY <1>3, <1>4 DEF RoutingInv, TypeOK, grid, PCs
<1>7. Covered(r)' /\ Cautious(r)'
  BY <1>1, <1>2, <1>4, <1>5 DEF Covered, Cautious, grid
<1> QED
  BY <1>4, <1>6, <1>7, RoutingLift DEF grid

\* Evaluate decides for the candidate at once only when there is no watermark.
LEMMA EvaluateInv == ASSUME RoutingInv, NEW r \in Resource, Evaluate(r) PROVE RoutingInv'
<1>1. breaker' \in Breaker
  BY BreakerTyped DEF RoutingInv, TypeOK, Evaluate
<1>2. /\ mark' \in [Resource -> Pending \cup {None, Corrupt}]
      /\ lost' \in [Resource -> BOOLEAN] /\ pc' \in [Resource -> PCs]
      /\ route' \in [Resource -> {"primary", "candidate"}]
      /\ \A s \in Resource \ {r} : /\ lost'[s] = lost[s] /\ mark'[s] = mark[s]
                                   /\ pc'[s] = pc[s] /\ route'[s] = route[s]
      /\ UNCHANGED <<grid, written, left>>
  BY DEF RoutingInv, TypeOK, Evaluate, SetMark, Lose, Go, Route, At, PCs
<1>4. TypeOK'
  BY <1>1, <1>2 DEF RoutingInv, TypeOK, grid, PCs
<1>5. /\ pc[r] = "idle"
      /\ \/ pc'[r] = "reader" /\ route'[r] = "primary" /\ mark'[r] = mark[r] /\ lost'[r] = lost[r]
         \/ pc'[r] = "reader" /\ mark[r] = None /\ mark'[r] = mark[r] /\ lost'[r] = lost[r]
         \/ pc'[r] = "reader" /\ lost'[r]
         \/ pc'[r] = "serials" /\ mark[r] \in Pending /\ mark'[r] = mark[r] /\ lost'[r] = lost[r]
  BY DEF RoutingInv, TypeOK, Evaluate, SetMark, Lose, Go, Route, At
<1>6. /\ None # Corrupt /\ None \notin Pending /\ Covered(r)
      /\ candidate \in Nat /\ written[r] \in Nat
      /\ candidate' = candidate /\ written' = written
  BY <1>2, RoutingConstants DEF RoutingInv, TypeOK, grid
<1>7. Covered(r)' /\ Cautious(r)'
  BY <1>5, <1>6 DEF Covered, Cautious
<1> QED
  BY <1>2, <1>4, <1>5, <1>7, RoutingLift DEF grid

\* The candidate reports the watermark: it has the change.
LEMMA SerialsInv ==
    ASSUME NoWrap, RoutingInv, NEW r \in Resource, evaluateCandidateSerial(r)
    PROVE  RoutingInv'
<1>1. breaker' \in Breaker
  BY BreakerTyped DEF RoutingInv, TypeOK, evaluateCandidateSerial
<1>2. /\ mark' \in [Resource -> Pending \cup {None, Corrupt}]
      /\ pc' \in [Resource -> PCs]
      /\ route' \in [Resource -> {"primary", "candidate"}]
      /\ \A s \in Resource \ {r} : /\ mark'[s] = mark[s] /\ pc'[s] = pc[s]
                                   /\ route'[s] = route[s]
      /\ pc[r] = "serials" /\ pc'[r] = "reader"
      /\ UNCHANGED <<grid, written, lost, left>>
  BY DEF RoutingInv, TypeOK, evaluateCandidateSerial, SetMark, Go, Route, At, PCs
<1>4. TypeOK'
  BY <1>1, <1>2 DEF RoutingInv, TypeOK, grid, PCs
<1>5. \/ route'[r] = "primary" /\ mark'[r] = mark[r]
      \/ route'[r] = "candidate" /\ Serial(candidate) >= mark[r].serial
  BY DEF RoutingInv, TypeOK, evaluateCandidateSerial, SetMark, Route, CaughtUp
<1>6. /\ Serial(candidate) = FirstSerial + candidate
      /\ mark[r] \in Pending /\ mark[r].serial \in Nat /\ mark[r] # Corrupt
      /\ FirstSerial \in Nat /\ candidate \in Nat /\ written[r] \in Nat
      /\ Covered(r)
  <2>1. primary \in 0..MaxWrites /\ candidate \in 0..primary /\ MaxWrites \in Nat
    BY RoutingConstants DEF RoutingInv, TypeOK
  <2>2. candidate \in 0..MaxWrites
    BY <2>1
  <2>3. mark[r] \in Pending /\ Covered(r)
    BY <1>2 DEF RoutingInv
  <2> QED
    BY <2>2, <2>3, SerialOrder, RoutingConstants DEF RoutingInv, TypeOK, Pending
<1>7. CASE route'[r] = "primary" /\ mark'[r] = mark[r]
  BY <1>2, <1>4, <1>6, <1>7, RoutingLift DEF Covered, Cautious, grid
<1>8. CASE route'[r] = "candidate" /\ Serial(candidate) >= mark[r].serial
  <2>1. ~lost[r] => candidate >= written[r]
    BY <1>2, <1>6, <1>8 DEF Covered
  <2>2. Covered(r)' /\ Cautious(r)'
    BY <1>2, <1>6, <2>1 DEF Covered, Cautious, grid
  <2> QED
    BY <1>2, <1>4, <2>2, RoutingLift DEF grid
<1> QED
  BY <1>5, <1>7, <1>8

\* Reader may fall back to the primary, never the other way.
LEMMA ReaderInv ==
    ASSUME RoutingInv, NEW r \in Resource, Reader(r) \/ Read(r) PROVE RoutingInv'
<1>1. breaker' \in Breaker
  BY BreakerTyped DEF RoutingInv, TypeOK, Reader, Read
<1>2. /\ pc' \in [Resource -> PCs]
      /\ route' \in [Resource -> {"primary", "candidate"}]
      /\ \A s \in Resource \ {r} : pc'[s] = pc[s] /\ route'[s] = route[s]
      /\ \/ pc'[r] = "read" /\ pc[r] = "reader"
         \/ pc'[r] = "idle" /\ pc[r] = "read"
      /\ route'[r] = "candidate" => route[r] = "candidate"
      /\ UNCHANGED <<grid, written, lost, mark, left>>
  BY DEF RoutingInv, TypeOK, Reader, Read, Go, Route, At, PCs
<1>4. TypeOK'
  BY <1>1, <1>2 DEF RoutingInv, TypeOK, grid, PCs
<1>5. Covered(r)' /\ Cautious(r)'
  BY <1>2 DEF RoutingInv, Covered, Cautious, grid
<1> QED
  BY <1>2, <1>4, <1>5, RoutingLift DEF grid

-----------------------------------------------------------------------------
\* The invariant is inductive: one lemma per action.
LEMMA RoutingNext == NoWrap /\ RoutingInv /\ [Next]_vars => RoutingInv'
<1> SUFFICES ASSUME NoWrap, RoutingInv, [Next]_vars PROVE RoutingInv'
  OBVIOUS
<1>1. CASE UNCHANGED vars
  BY <1>1 DEF vars, RoutingInv, TypeOK, Covered, Cautious
<1>2. CASE Next
  BY <1>2, ReplicateInv, FailureInv, TamperInv, TickInv, WriteInv, RecordWriteInv,
     EvaluateInv, SerialsInv, ReaderInv DEF Next, Observe
<1> QED
  BY <1>1, <1>2

\* While the zone's serial does not wrap, a candidate the gate (Evaluate) lets an
\* Observe read has the resource's own last write, unless the gate gave up its
\* watermark (evaluateTimeout) or never had one (RecordWrite).
THEOREM ReadYourWritesHolds == NoWrap => (Spec => []ReadYourWrites)
<1> SUFFICES ASSUME NoWrap PROVE Spec => []ReadYourWrites
  OBVIOUS
<1>1. RoutingInv => ReadYourWrites
  BY DEF RoutingInv, ReadYourWrites, Reads, At, Cautious
<1>2. RoutingInv /\ [Next]_vars => RoutingInv'
  BY RoutingNext
<1> QED
  BY <1>1, <1>2, RoutingInit, PTL DEF Spec

-----------------------------------------------------------------------------
\* Types need no more than types, whether serials wrap or not: one step per action.
LEMMA TypeStep == TypeOK /\ [Next]_vars => TypeOK'
<1> SUFFICES ASSUME TypeOK, [Next]_vars PROVE TypeOK'
  OBVIOUS
<1>1. CASE UNCHANGED vars
  BY <1>1 DEF vars, TypeOK
<1>2. CASE Replicate
  <2>1. candidate' \in 0..primary
    BY <1>2, RoutingConstants DEF TypeOK, Replicate
  <2> QED BY <1>2, <2>1 DEF TypeOK, Replicate
<1>3. CASE Outage \/ Restore \/ Reassign
  <2>1. left' \in [{"record", "tamper", "zone", "outage"} -> 0..MaxFaults]
    BY <1>3, SpendBounded DEF TypeOK, Outage, Restore, Reassign
  <2> QED BY <1>3, <2>1 DEF TypeOK, Outage, Restore, Reassign
<1>4. CASE Tick
  <2>1. breaker' \in Breaker
    BY <1>4, BreakerTyped DEF TypeOK, Tick
  <2>2. ASSUME NEW r \in Resource PROVE mark'[r] \in Pending \cup {None, Corrupt}
    <3>1. mark'[r] = IF mark[r] \in Pending /\ mark[r].age <= Timeout
                     THEN [mark[r] EXCEPT !.age = @ + 1] ELSE mark[r]
      BY <1>4 DEF Tick
    <3>2. mark[r] \in Pending /\ mark[r].age <= Timeout
            => mark[r].age + 1 \in 0..(Timeout + 1) /\ mark[r].serial \in Nat
      BY RoutingConstants DEF Pending
    <3>3. mark[r] \in Pending /\ mark[r].age <= Timeout
            => [mark[r] EXCEPT !.age = @ + 1] \in Pending
      BY <3>2 DEF Pending
    <3> QED BY <3>1, <3>3 DEF TypeOK
  <2>3. mark' \in [Resource -> Pending \cup {None, Corrupt}]
    BY <1>4, <2>2 DEF Tick
  <2> QED BY <1>4, <2>1, <2>3 DEF TypeOK, Tick, grid
<1>5. ASSUME NEW r \in Resource, Tamper(r) PROVE TypeOK'
  <2>1. left' \in [{"record", "tamper", "zone", "outage"} -> 0..MaxFaults]
    BY <1>5, SpendBounded DEF Tamper
  <2>2. mark' \in [Resource -> Pending \cup {None, Corrupt}]
    BY <1>5 DEF TypeOK, Tamper, SetMark
  <2> QED BY <1>5, <2>1, <2>2 DEF TypeOK, Tamper, grid
<1>6. ASSUME NEW r \in Resource, Write(r) PROVE TypeOK'
  <2>1. /\ primary' = primary + 1 /\ primary + 1 \in 0..MaxWrites
        /\ candidate \in 0..(primary + 1)
    BY <1>6, RoutingConstants DEF TypeOK, Write
  <2>2. /\ written' \in [Resource -> 0..MaxWrites] /\ lost' \in [Resource -> BOOLEAN]
        /\ pc' \in [Resource -> PCs]
    BY <1>6, <2>1 DEF TypeOK, Write, Lose, Go, PCs
  <2> QED BY <1>6, <2>1, <2>2 DEF TypeOK, Write, PCs
<1>7. ASSUME NEW r \in Resource, RecordWrite(r) PROVE TypeOK'
  <2>1. Serial(primary) \in Nat
    BY RoutingConstants DEF TypeOK, Serial
  <2>2. [serial |-> Serial(primary), age |-> 0] \in Pending
    BY <2>1, RoutingConstants DEF Pending
  <2>3. left' \in [{"record", "tamper", "zone", "outage"} -> 0..MaxFaults]
    BY <1>7, SpendBounded DEF TypeOK, RecordWrite
  <2>4. /\ mark' \in [Resource -> Pending \cup {None, Corrupt}]
        /\ lost' \in [Resource -> BOOLEAN] /\ pc' \in [Resource -> PCs]
    BY <1>7, <2>2 DEF TypeOK, RecordWrite, SetMark, Lose, Go, PCs
  <2> QED BY <1>7, <2>3, <2>4 DEF TypeOK, RecordWrite, grid, PCs
<1>8. ASSUME NEW r \in Resource, Observe(r) PROVE TypeOK'
  <2>1. breaker' \in Breaker
    BY <1>8, BreakerTyped
       DEF TypeOK, Observe, Evaluate, evaluateCandidateSerial, Reader, Read
  <2>2. /\ mark' \in [Resource -> Pending \cup {None, Corrupt}]
        /\ lost' \in [Resource -> BOOLEAN]
    BY <1>8
       DEF TypeOK, Observe, Evaluate, evaluateCandidateSerial, Reader, Read, SetMark, Lose
  <2>3. /\ pc' \in [Resource -> PCs]
        /\ route' \in [Resource -> {"primary", "candidate"}]
    BY <1>8
       DEF TypeOK, Observe, Evaluate, evaluateCandidateSerial, Reader, Read, Go, Route, PCs
  <2>4. UNCHANGED <<grid, written, left>>
    BY <1>8 DEF Observe, Evaluate, evaluateCandidateSerial, Reader, Read
  <2> QED BY <2>1, <2>2, <2>3, <2>4 DEF TypeOK, grid, PCs
<1> QED
  BY <1>1, <1>2, <1>3, <1>4, <1>5, <1>6, <1>7, <1>8 DEF Next

\* Every variable keeps its type, even when serials wrap: in particular the candidate is
\* never ahead of the primary, and the breaker's counter stays within its bound.
THEOREM TypeCorrect == Spec => []TypeOK
<1>1. Init => TypeOK
  BY RoutingInit DEF RoutingInv
<1> QED
  BY <1>1, TypeStep, PTL DEF Spec
=============================================================================
