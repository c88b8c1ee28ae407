---------------------------- MODULE MCFieldSync -----------------------------
(***************************************************************************)
(* The slices of every kind, and of every type of entry.                   *)
(***************************************************************************)
EXTENDS FieldSync, Kinds, FiniteSets

\* A field with its flag, two of them if that can be forced; an address with its CIDR;
\* flags that are joined; or a field alone, as one of joined flags is where the host has
\* entries of one family only.
Related(kind) ==
    {{f, kind.gate[f]} : f \in DOMAIN kind.gate}
      \cup {{f, g, kind.gate[f]} : f, g \in {h \in DOMAIN kind.gate :
                                                   kind.gate[h] \in kind.forced}}
      \cup {{f, kind.cidr[f]} : f \in DOMAIN kind.cidr}
      \cup ({kind.joined} \ {{}})

AllSlices ==
    LET kinds == Kinds @@ ElementKinds
        Of(n) == LET kind == kinds[n]
                 IN  {[kind |-> n, fields |-> fs, table |-> Sliced(kind, fs)] : fs \in
                        Related(kind) \cup {{f} : f \in (kind.required \cup kind.optional)
                                                          \ UNION Related(kind)}
                                      \cup {{f} : f \in kind.joined}}
    IN  UNION {Of(n) : n \in DOMAIN kinds}

\* What the model knows of a field apart from its name.
Profile(kind, f) ==
    <<f \in Scalars, f \in Lists, f \in kind.required, f \in kind.immutable,
      f \in kind.compared, f \in kind.late, f \in kind.created, f \in kind.updated,
      f \in kind.whenReported, f \in kind.whenSet, f \in kind.omitsUnset,
      f \in kind.omitsEmpty, f \in kind.owned, f \in kind.forced, f \in Givens,
      f \in DOMAIN kind.gate, f \in DOMAIN kind.cidr, f = "extAttrs", f \in kind.mirrored,
      f \in kind.echoed, f \in kind.returned, f = "extAttrs" /\ kind.attributes # NoFields,
      f \in kind.blank, f \in kind.deep, f \in kind.ungated, f \in kind.joined>>

Profiles(s) == <<Cardinality(s.fields), s.kind[1] \in FaceValued,
                 {Profile(s.table, f) : f \in s.fields}>>

\* One slice of each profile.
Representatives(slices) ==
    LET profiled == {<<Profiles(s), s>> : s \in slices}
    IN  {(CHOOSE q \in profiled : q[1] = p)[2] : p \in {q[1] : q \in profiled}}

\* The address may be chosen by the Grid, and is never filled in: it does not settle.
Allocated ==
    {s \in AllSlices : (s.fields \cap DOMAIN s.table.cidr) \ s.table.late # {}}

\* An alternate method, once set, cannot be set to NONE: that is not sent.
Unclearable ==
    {s \in AllSlices : s.kind[1] = "Pool" /\ s.fields = {"lbAlternateMethod"}}

Settled == Representatives(AllSlices \ (Allocated \cup Unclearable))
=============================================================================
