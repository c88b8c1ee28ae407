---------------------------- MODULE MCReferences ----------------------------
(***************************************************************************)
(* Every field that may be a reference, in both scopes.                    *)
(***************************************************************************)
EXTENDS References

(***************************************************************************)
(* Each of those kinds has its controllers and its functions on fields,    *)
(* and what the theorems assume of either is evaluated here, for all.      *)
(***************************************************************************)
C == INSTANCE AllControllers

ASSUME CallsInOrder ==
    \A n \in DOMAIN C!AllKinds, scope \in C!Scopes :
      LET c == C!AllKinds[n][scope] IN
      /\ C!TracksFirst(c) /\ C!RecordsSafely(c)
      /\ C!SearchesFirst(c, n \in C!Immutable) /\ C!ChecksFirst(c)

\* An address that the Grid may choose and that is never filled in, and a method that
\* cannot be set back to NONE: they do not settle.
Unsettled(n, kind) ==
    (DOMAIN kind.cidr \ kind.late) \cup IF n = "Pool" THEN {"lbAlternateMethod"} ELSE {}

\* All fields of a kind at once, and those of a type of entry.
ASSUME FunctionsAgree ==
    \A n \in DOMAIN Kinds \cup DOMAIN ElementKinds :
      LET kind    == (Kinds @@ ElementKinds)[n]
          all     == kind.required \cup kind.optional
          settled == all \ Unsettled(n[1], kind)
      IN  /\ WellFormed(kind, all) /\ Preserves(kind)
          /\ kind.deep \cup kind.ungated # {} => n[1] \in TakenAtFace
          /\ WellFormed(Sliced(kind, settled), settled)
          /\ Agree(Sliced(kind, settled)) /\ Preserves(Sliced(kind, settled))

AllReferences ==
    UNION {[kind : {n}, field : DOMAIN References[n]] : n \in DOMAIN References}

ServersOnly == [kind : {<<"Pool", "cluster">>}, field : {"servers"}]
=============================================================================
