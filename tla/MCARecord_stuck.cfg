SPECIFICATION FairSpec
CONSTANTS
    m1 = m1
    m2 = m2
    a1 = a1
    a2 = a2
    a3 = a3
    v1 = v1
    NoStamp = NoStamp
    Absent = Absent
    NoRef = NoRef
    Empty = Empty
    Nil = Nil
    UID = {m1, m2}
    Addr = {a1, a2}
    Val = {Empty}
    SpecVal = {Nil}
    Preexisting = {}
    Imports <- ImportsNone
    AdminOps = {"rename"}
    MaxEdits = 0
    MaxAborts = 0
    MaxAdmin = 1
PROPERTIES DeletedGoes
\* Once every managed resource is deleted nothing is left to do.
CHECK_DEADLOCK FALSE
