------------------------------ MODULE MCProber ------------------------------
(***************************************************************************)
(* Instances of Prober for TLC.                                            *)
(***************************************************************************)
EXTENDS Prober, TLC

CONSTANTS c1, c2, c3, h1, h2

\* Two reconciles of one Grid, and one of another.
HostOfTwo == [c \in Call |-> IF c = c3 THEN h2 ELSE h1]

OneHost == [c \in Call |-> h1]
=============================================================================
