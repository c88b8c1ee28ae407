---------------------------- MODULE ReadRouting ----------------------------
(***************************************************************************)
(* The read/write endpoint split: writes go to the primary Grid Master,    *)
(* reads to a candidate that replicates it with a delay, and the           *)
(* convergence gate (internal/clients/convergence) decides for every       *)
(* Observe whether the candidate may be read.  All resources here are      *)
(* records of one zone and share one breaker (internal/clients/dualclient).*)
(*                                                                         *)
(* Changes of the zone are numbered 1, 2, ... in the order the primary     *)
(* made them; an endpoint that holds the first n of them reports SOA       *)
(* serial Serial(n), which is a uint32.                                    *)
(***************************************************************************)
EXTENDS CircuitBreaker

CONSTANTS
    Resource,    \* the managed resources of the zone
    PrimaryOnly, \* those whose effective mode is primaryOnly
    FirstSerial, \* the zone's serial to begin with
    SerialMod,   \* 2^32 in the code
    Timeout,     \* convergence.timeout, in ticks
    None,        \* no pending-zone-serial annotation
    Corrupt,     \* one that does not parse
    MaxWrites,   \* bound on writes
    MaxFaults    \* bound on each kind of failure

\* A watermark; its age matters up to the timeout only.
Pending == [serial : Nat, age : 0..(Timeout + 1)]

ASSUME RoutingConstants ==
    /\ PrimaryOnly \subseteq Resource
    /\ {FirstSerial, MaxWrites, MaxFaults} \subseteq Nat
    /\ {SerialMod, Timeout} \subseteq Nat \ {0}
    /\ FirstSerial < SerialMod
    /\ None # Corrupt /\ {None, Corrupt} \cap Pending = {}

VARIABLES
    primary,   \* changes the primary has made
    candidate, \* changes the candidate has replicated
    up,        \* the candidate answers
    zone,      \* what the candidate reports of the zone's members
    written,   \* written[r]: the last change that r made, 0 for none
    lost,      \* lost[r]: the gate has no watermark for that change
    mark,      \* mark[r]: the annotation, the watermark serial and its age
    breaker,   \* the circuit breaker
    pc,        \* pc[r]: where r's reconcile is
    route,     \* route[r]: the endpoint it will read from
    left       \* failures left, by kind

vars == <<primary, candidate, up, zone, written, lost, mark, breaker, pc, route, left>>

grid == <<primary, candidate, up, zone>>

Serial(n) == (FirstSerial + n) % SerialMod

TypeOK ==
    /\ primary \in 0..MaxWrites /\ candidate \in 0..primary
    /\ up \in BOOLEAN
    /\ zone \in {"served", "unlisted", "unserved"}
    /\ written \in [Resource -> 0..MaxWrites]
    /\ lost \in [Resource -> BOOLEAN]
    /\ mark \in [Resource -> Pending \cup {None, Corrupt}]
    /\ breaker \in Breaker
    /\ pc \in [Resource -> {"idle", "record", "serials", "reader", "read"}]
    /\ route \in [Resource -> {"primary", "candidate"}]
    /\ left \in [{"record", "tamper", "zone", "outage"} -> 0..MaxFaults]

Init ==
    /\ primary = 0 /\ candidate = 0
    /\ up = TRUE /\ zone = "served"
    /\ written = [r \in Resource |-> 0]
    /\ lost = [r \in Resource |-> FALSE]
    /\ mark = [r \in Resource |-> None]
    /\ breaker = NewCircuitBreaker
    /\ pc = [r \in Resource |-> "idle"]
    /\ route = [r \in Resource |-> "primary"]
    /\ left = [k \in {"record", "tamper", "zone", "outage"} |-> MaxFaults]

Spend(k) == left[k] > 0 /\ left' = [left EXCEPT ![k] = @ - 1]

At(r, p) == pc[r] = p
Go(r, p) == pc' = [pc EXCEPT ![r] = p]
Route(r, e) == route' = [route EXCEPT ![r] = e]
SetMark(r, p) == mark' = [mark EXCEPT ![r] = p]
Lose(r, b) == lost' = [lost EXCEPT ![r] = b]

-----------------------------------------------------------------------------
(***************************************************************************)
(* The endpoints, the clock and people.                                    *)
(***************************************************************************)
Replicate ==
    /\ candidate < primary
    /\ candidate' = candidate + 1
    /\ UNCHANGED <<primary, up, zone, written, lost, mark, breaker, pc, route, left>>

Outage ==
    /\ up /\ Spend("outage") /\ up' = FALSE
    /\ UNCHANGED <<primary, candidate, zone, written, lost, mark, breaker, pc, route>>

Restore ==
    /\ ~up /\ up' = TRUE
    /\ UNCHANGED <<primary, candidate, zone, written, lost, mark, breaker, pc, route, left>>

\* The zone loses or regains its grid primary, or the candidate its listing.
Reassign ==
    /\ Spend("zone")
    /\ zone' \in {"served", "unlisted", "unserved"} \ {zone}
    /\ UNCHANGED <<primary, candidate, up, written, lost, mark, breaker, pc, route>>

\* Somebody damages the annotation.
Tamper(r) ==
    /\ mark[r] \in Pending /\ At(r, "idle")
    /\ Spend("tamper")
    /\ SetMark(r, Corrupt)
    /\ UNCHANGED <<grid, written, lost, breaker, pc, route>>

Tick ==
    /\ breaker' = Elapse(breaker)
    /\ mark' = [r \in Resource |->
                  IF mark[r] \in Pending /\ mark[r].age <= Timeout
                  THEN [mark[r] EXCEPT !.age = @ + 1] ELSE mark[r]]
    /\ UNCHANGED <<grid, written, lost, pc, route, left>>

-----------------------------------------------------------------------------
(***************************************************************************)
(* A write, and RecordWrite after it.  Writes of other resources, and      *)
(* replication, may come in between; a crash there, or a failing query,    *)
(* leaves the change without a watermark.                                  *)
(***************************************************************************)
Write(r) ==
    /\ At(r, "idle") /\ primary < MaxWrites
    /\ primary' = primary + 1
    /\ written' = [written EXCEPT ![r] = primary + 1]
    /\ Lose(r, FALSE)
    /\ Go(r, "record")
    /\ UNCHANGED <<candidate, up, zone, mark, breaker, route, left>>

\* Mutant: a zone that reports no serial is not skipped.
RecordWrite_ignoresFound(r) ==
    /\ At(r, "record")
    /\ \/ Spend("record") /\ Lose(r, TRUE) /\ UNCHANGED mark
       \/ /\ SetMark(r, [serial |-> IF zone = "unserved" THEN None ELSE Serial(primary),
                         age |-> 0])
          /\ UNCHANGED <<lost, left>>
    /\ Go(r, "idle")
    /\ UNCHANGED <<grid, written, breaker, route>>

RecordWrite(r) ==
    /\ At(r, "record")
    /\ \/ Spend("record") /\ Lose(r, TRUE) /\ UNCHANGED mark
       \/ zone = "unserved" /\ Lose(r, TRUE) /\ UNCHANGED <<mark, left>>
       \/ /\ zone # "unserved"
          /\ SetMark(r, [serial |-> Serial(primary), age |-> 0])
          /\ UNCHANGED <<lost, left>>
    /\ Go(r, "idle")
    /\ UNCHANGED <<grid, written, breaker, route>>

-----------------------------------------------------------------------------
(***************************************************************************)
(* Evaluate.  Its first checks make no request; they end in a route, or in *)
(* the query for the candidate's serial.                                   *)
(***************************************************************************)
evaluateStructural(r) == r \in PrimaryOnly \/ IsOpen(breaker)

evaluateTimeout(r) == mark[r] \in Pending /\ mark[r].age > Timeout

\* Mutant: a watermark that does not parse is no watermark.
Evaluate_corruptIsNone(r) ==
    /\ At(r, "idle")
    /\ breaker' = IF r \in PrimaryOnly THEN breaker ELSE Asked(breaker)
    /\ \/ /\ evaluateStructural(r)
          /\ Route(r, "primary") /\ Go(r, "reader") /\ UNCHANGED <<mark, lost>>
       \/ /\ ~evaluateStructural(r) /\ mark[r] \in {None, Corrupt}
          /\ Route(r, "candidate") /\ Go(r, "reader") /\ UNCHANGED <<mark, lost>>
       \/ /\ ~evaluateStructural(r) /\ evaluateTimeout(r)
          /\ SetMark(r, None) /\ Lose(r, TRUE)
          /\ Route(r, "primary") /\ Go(r, "reader")
       \/ /\ ~evaluateStructural(r) /\ mark[r] \in Pending /\ ~evaluateTimeout(r)
          /\ Go(r, "serials") /\ UNCHANGED <<mark, lost, route>>
    /\ UNCHANGED <<grid, written, left>>

\* Mutant: the timeout is not checked.
Evaluate_waitsForever(r) ==
    /\ At(r, "idle")
    /\ breaker' = IF r \in PrimaryOnly THEN breaker ELSE Asked(breaker)
    /\ \/ /\ evaluateStructural(r) \/ mark[r] = Corrupt
          /\ Route(r, "primary") /\ Go(r, "reader")
       \/ /\ ~evaluateStructural(r) /\ mark[r] = None
          /\ Route(r, "candidate") /\ Go(r, "reader")
       \/ /\ ~evaluateStructural(r) /\ mark[r] \in Pending
          /\ Go(r, "serials") /\ UNCHANGED route
    /\ UNCHANGED <<grid, written, mark, lost, left>>

Evaluate(r) ==
    /\ At(r, "idle")
    /\ breaker' = IF r \in PrimaryOnly THEN breaker ELSE Asked(breaker)
    /\ \/ /\ evaluateStructural(r) \/ mark[r] = Corrupt
          /\ Route(r, "primary") /\ Go(r, "reader") /\ UNCHANGED <<mark, lost>>
       \/ /\ ~evaluateStructural(r) /\ mark[r] = None
          /\ Route(r, "candidate") /\ Go(r, "reader") /\ UNCHANGED <<mark, lost>>
       \/ /\ ~evaluateStructural(r) /\ evaluateTimeout(r)
          /\ SetMark(r, None) /\ Lose(r, TRUE)
          /\ Route(r, "primary") /\ Go(r, "reader")
       \/ /\ ~evaluateStructural(r) /\ mark[r] \in Pending /\ ~evaluateTimeout(r)
          /\ Go(r, "serials") /\ UNCHANGED <<mark, lost, route>>
    /\ UNCHANGED <<grid, written, left>>

CaughtUp(r) == Serial(candidate) >= mark[r].serial

NotYet(r) == zone = "unlisted" \/ (zone = "served" /\ ~CaughtUp(r))

\* The candidate's answer, and decideFromMemberSerial.
evaluateCandidateSerial(r) ==
    /\ At(r, "serials")
    /\ \/ /\ ~up
          /\ breaker' = RecordFailure(breaker) /\ Route(r, "primary") /\ UNCHANGED mark
       \/ /\ up /\ zone = "unserved"
          /\ Route(r, "primary") /\ UNCHANGED <<breaker, mark>>
       \/ /\ up /\ NotYet(r)
          /\ breaker' = RecordSuccess(breaker) /\ Route(r, "primary") /\ UNCHANGED mark
       \/ /\ up /\ zone = "served" /\ CaughtUp(r)
          /\ SetMark(r, None)
          /\ breaker' = RecordSuccess(breaker) /\ Route(r, "candidate")
    /\ Go(r, "reader")
    /\ UNCHANGED <<grid, written, lost, left>>

(***************************************************************************)
(* The read itself: Reader asks the breaker again, and the outcome of a    *)
(* read of the candidate is reported to it.                                *)
(***************************************************************************)
Reader(r) ==
    /\ At(r, "reader")
    /\ \/ route[r] = "primary" /\ UNCHANGED <<breaker, route>>
       \/ /\ route[r] = "candidate" /\ IsOpen(breaker)
          /\ Route(r, "primary") /\ UNCHANGED <<breaker>>
       \/ /\ route[r] = "candidate" /\ ~IsOpen(breaker)
          /\ breaker' = Asked(breaker)
          /\ UNCHANGED route
    /\ Go(r, "read")
    /\ UNCHANGED <<grid, written, lost, mark, left>>

Read(r) ==
    /\ At(r, "read")
    /\ breaker' = CASE route[r] = "primary"          -> breaker
                    [] route[r] = "candidate" /\ up  -> RecordSuccess(breaker)
                    [] route[r] = "candidate" /\ ~up -> RecordFailure(breaker)
    /\ Go(r, "idle")
    /\ UNCHANGED <<grid, written, lost, mark, route, left>>

Observe(r) == Evaluate(r) \/ evaluateCandidateSerial(r) \/ Reader(r) \/ Read(r)

Next == \/ \E r \in Resource : Write(r) \/ RecordWrite(r) \/ Observe(r) \/ Tamper(r)
        \/ Replicate \/ Outage \/ Restore \/ Reassign \/ Tick

Spec == Init /\ [][Next]_vars

-----------------------------------------------------------------------------
Reads(r) == At(r, "read") /\ route[r] = "candidate"

\* No Observe reads a state of the zone older than its resource's own last
\* write, unless the gate has lost the watermark for that write: candidate and
\* gate race with writes of other resources, failures and the breaker.
ReadYourWrites ==
    \A r \in Resource : Reads(r) /\ ~lost[r] => candidate >= written[r]

(***************************************************************************)
(* What makes it inductive.                                                *)
(***************************************************************************)
\* A change the candidate lacks is covered by a watermark, or the annotation is
\* damaged, or RecordWrite is still to come.
Covered(r) ==
    ~lost[r] /\ candidate < written[r] /\ pc[r] # "record"
        => \/ mark[r] = Corrupt
           \/ mark[r] \in Pending /\ mark[r].serial >= FirstSerial + written[r]

\* The gate has not decided for the candidate too early.
Cautious(r) ==
    pc[r] \in {"reader", "read"} /\ route[r] = "candidate" /\ ~lost[r]
        => candidate >= written[r]

RoutingInv ==
    /\ TypeOK
    /\ \A r \in Resource : /\ written[r] <= primary
                           /\ pc[r] = "serials" => mark[r] \in Pending
                           /\ Covered(r) /\ Cautious(r)

\* Reconciles go round for ever and requests end, replication makes progress
\* and so does the clock.  Nobody promises that an outage ends.
Fairness == /\ \A r \in Resource : WF_vars(RecordWrite(r) \/ Observe(r))
            /\ WF_vars(Replicate) /\ WF_vars(Tick)

FairSpec == Spec /\ Fairness

\* A resource is not pinned to the primary by its watermark for ever, however
\* long the candidate is away: Evaluate gives up after the timeout.
Unpinned ==
    \A r \in Resource \ PrimaryOnly : mark[r] \in Pending ~> mark[r] \notin Pending

\* When the candidate is back for good its reads resume, whatever the breaker
\* and the watermarks went through (a damaged annotation waits for a write).
Resumes ==
    \A r \in Resource \ PrimaryOnly :
        <>[]up => []<>Reads(r) \/ <>[](mark[r] = Corrupt)
=============================================================================
