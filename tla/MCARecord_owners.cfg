SPECIFICATION Spec
CONSTANTS
    m1 = m1
    m2 = m2
    a1 = a1
    a2 = a2
    a3 = a3
    v1 = v1
    NoStamp = NoStamp
    Absent = Absent
    NoRef = NoRef
    Empty = Empty
    Nil = Nil
    UID = {m1, m2}
    Addr = {a1, a2, a3}
    Val = {Empty}
    SpecVal = {Nil}
    Preexisting = {a1}
    Imports <- ImportsDisjoint
    AdminOps = {}
    MaxEdits = 1
    MaxAborts = 1
    MaxAdmin = 0
SYMMETRY SymmetricAddr
INVARIANTS TypeOK UniqueOwnership
PROPERTIES OwnerOnly Implements
\* Once every managed resource is deleted nothing is left to do.
CHECK_DEADLOCK FALSE
