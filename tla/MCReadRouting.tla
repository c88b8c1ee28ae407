--------------------------- MODULE MCReadRouting ---------------------------
(***************************************************************************)
(* Instances of ReadRouting for TLC.                                       *)
(***************************************************************************)
EXTENDS ReadRouting, TLC

CONSTANTS r1, r2, r3

SymmetricResource == Permutations({r1, r2})
=============================================================================
