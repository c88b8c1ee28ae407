SPECIFICATION FairSpec
CONSTANTS
    m1 = m1
    m2 = m2
    a1 = a1
    a2 = a2
    a3 = a3
    v1 = v1
    NoStamp = NoStamp
    Absent = Absent
    NoRef = NoRef
    Empty = Empty
    Nil = Nil
    UID = {m1}
    Addr = {a1, a2}
    Val = {Empty, v1}
    SpecVal = {Nil, Empty, v1}
    Preexisting = {a1}
    Imports <- ImportsDisjoint
    AdminOps = {"create", "delete", "rename", "strip"}
    MaxEdits = 1
    MaxAborts = 1
    MaxAdmin = 1
INVARIANTS NoOrphan
PROPERTIES Converges DeletionCompletes
\* Once every managed resource is deleted nothing is left to do.
CHECK_DEADLOCK FALSE
