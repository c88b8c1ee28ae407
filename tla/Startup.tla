------------------------------ MODULE Startup -------------------------------
(***************************************************************************)
(* How one controller of the provider comes to run, and stays running:     *)
(* main's choice between SafeStart and an immediate start, the gate that   *)
(* waits for the CRD, and the state recorder, a runnable whose error ends  *)
(* the whole process.  A CRD that is established is not yet known to the   *)
(* client's RESTMapper.                                                    *)
(***************************************************************************)
EXTENDS Controllers, Naturals

CONSTANTS
    Kinds,     \* the controllers, by the name of the kind
    Subjects,  \* [kind, scope]: what is looked at
    MaxEvents  \* bound on crashes, failures and administrators' doings

ASSUME StartupConstants ==
    /\ \A n \in DOMAIN Kinds : Kinds[n] \in ControllerTables
    /\ Subjects \subseteq [kind : DOMAIN Kinds, scope : Scopes]
    /\ MaxEvents \in Nat

VARIABLES
    subject,   \* the controller looked at
    crd,       \* the CRD of its kind and scope
    proc,      \* the process: its phase, and whether it is gated
    left       \* events left

startup == <<subject, crd, proc, left>>

Down == [phase |-> "down", gated |-> FALSE]

K == Kinds[subject.kind]
S == K[subject.scope]

StartupTypeOK ==
    /\ subject \in Subjects
    /\ crd \in {"none", "established", "mapped"}
    /\ proc \in [phase : {"down", "waiting", "running"}, gated : BOOLEAN]
    /\ left \in 0..MaxEvents

StartupInit ==
    /\ subject \in Subjects
    /\ crd = "none"
    /\ proc = Down
    /\ left = MaxEvents

Spend == left > 0 /\ left' = left - 1

-----------------------------------------------------------------------------
\* The package manager installs the CRD; the RESTMapper hears of it.
Install  == crd = "none" /\ crd' = "established" /\ UNCHANGED <<subject, proc, left>>
Discover == crd = "established" /\ crd' = "mapped" /\ UNCHANGED <<subject, proc, left>>

\* canWatchCRD asks until the RBAC manager has granted access, or its time is over.
Start ==
    /\ proc.phase = "down"
    /\ \E granted \in BOOLEAN :
         proc' = [phase |-> IF granted THEN "waiting" ELSE "running", gated |-> granted]
    /\ UNCHANGED <<subject, crd, left>>

\* The gate calls back what was registered for a CRD that is established.
OpenGate ==
    /\ proc.phase = "waiting"
    /\ crd # "none"
    /\ subject.scope \in K.gates
    /\ proc' = [proc EXCEPT !.phase = "running"]
    /\ UNCHANGED <<subject, crd, left>>

\* Without the gate, a controller whose informer cannot sync ends the process.
SyncTimeout ==
    /\ proc.phase = "running" /\ ~proc.gated
    /\ crd # "mapped"
    /\ proc' = Down
    /\ UNCHANGED <<subject, crd, left>>

\* The recorder's tick.  It lists the resources; that the kind is not known yet is an
\* error that only the resilient one survives.
Record ==
    /\ proc.phase = "running"
    /\ \/ /\ crd = "mapped"
          /\ UNCHANGED proc
       \/ /\ crd # "mapped"
          /\ proc' = IF "resilientRecorder" \in {S.setup[i] : i \in DOMAIN S.setup}
                     THEN proc ELSE Down
    /\ UNCHANGED <<subject, crd, left>>

\* The process is killed, or the recorder's list fails in any other way.
Crash ==
    /\ proc.phase # "down" /\ Spend
    /\ proc' = Down
    /\ UNCHANGED <<subject, crd>>

\* Reconciles run.
Serving == proc.phase = "running" /\ crd = "mapped"

Boot == Install \/ Discover \/ Start \/ OpenGate \/ Record

\* The kubelet restarts the process; an established CRD opens the gate and gets known.
StartupFairness ==
    WF_startup(Start) /\ WF_startup(OpenGate) /\ WF_startup(Discover)

-----------------------------------------------------------------------------
\* Once gated, the process does not end because a CRD is missing or not known yet:
\* neither an informer nor the recorder runs into it.
StaysUp == [][proc.gated /\ proc' = Down => left' < left]_startup

\* An installed CRD gets its controller, in either scope and either way of starting.
Starts == crd # "none" ~> Serving
=============================================================================
