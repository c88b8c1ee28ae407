-------------------------- MODULE MCDriftDetection --------------------------
(***************************************************************************)
(* Constants for TLC: one resource and the comment, or the extensible      *)
(* attributes, of its record.                                              *)
(***************************************************************************)
EXTENDS DriftDetection

CONSTANTS f1, f2, v1, v2
=============================================================================
