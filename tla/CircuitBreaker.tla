--------------------------- MODULE CircuitBreaker ---------------------------
(***************************************************************************)
(* dualclient.CircuitBreaker: what its methods do to a breaker and answer. *)
(* A breaker is [failures, until]: the consecutive failures and openUntil, *)
(* NoTime or the ticks until now() is After it.  Each method holds the     *)
(* mutex, so each is one step of whoever calls it.                         *)
(***************************************************************************)
EXTENDS Naturals

CONSTANTS
    Threshold, \* consecutive failures that open the circuit
    Backoff,   \* ticks the circuit then stays open
    NoTime,    \* the zero time.Time
    MaxCount   \* where the model stops counting failures

ASSUME BreakerConstants ==
    /\ {Threshold, Backoff} \subseteq Nat \ {0}
    /\ MaxCount \in Nat /\ MaxCount >= Threshold
    /\ NoTime \notin Nat

Breaker == [failures : 0..MaxCount, until : 0..(Backoff + 1) \cup {NoTime}]

NewCircuitBreaker == [failures |-> 0, until |-> NoTime]

RecordSuccess(b) == [failures |-> 0, until |-> NoTime]

\* Counting past MaxCount >= Threshold makes no difference to the breaker.
Failures(b) == IF b.failures < MaxCount THEN b.failures + 1 ELSE MaxCount

RecordFailure(b) ==
    [failures |-> Failures(b),
     until    |-> IF Failures(b) >= Threshold THEN Backoff + 1 ELSE b.until]

\* IsOpen's answer ...
IsOpen(b) == b.until # NoTime /\ b.until > 0

\* Mutant: the window is compared with Before, and never found elapsed.
Asked_keeps(b) == [b EXCEPT !.until = IF @ = NoTime THEN @ ELSE Backoff + 1]

\* ... and what asking does: a window that has elapsed is cleared.
Asked(b) == IF IsOpen(b) THEN b ELSE [b EXCEPT !.until = NoTime]

\* One tick of the clock.
Elapse(b) == [b EXCEPT !.until = IF @ = NoTime \/ @ = 0 THEN @ ELSE @ - 1]
=============================================================================
