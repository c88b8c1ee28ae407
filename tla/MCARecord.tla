------------------------------ MODULE MCARecord ------------------------------
(***************************************************************************)
(* Instances of ARecord for TLC.                                           *)
(***************************************************************************)
EXTENDS ARecord, TLC, FiniteSets

CONSTANTS m1, m2, a1, a2, a3, v1

\* Each pre-existing object is adopted by one managed resource at most.
ImportsDisjoint == [m \in UID |-> IF m = m1 THEN {a1} ELSE {}]

\* Nothing is adopted.
ImportsNone == [m \in UID |-> {}]

SymmetricAddr == Permutations({a2, a3})
==============================================================================
