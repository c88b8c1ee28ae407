CONSTANTS
    k1 = k1
    k2 = k2
    v1 = v1
    v2 = v2
    Absent = Absent
    NoRef = NoRef
    Unset = Unset
    Kinds <- AllKinds
    Subjects <- Representatives
    FixedKeys <- Immutable
    Preexisting <- Holdings
    Key = {k1, k2}
    Reserved = k2
    Val = {v1, v2}
    SpecVal = {Unset}
    AdminOps = {"delete", "edit", "rename", "undefine"}
    MaxEvents = 1
    MaxEdits = 1
SPECIFICATION FairSpec
INVARIANTS TypeOK NoOrphan NoTwin ConfigKept
PROPERTIES ReservedKept StaysUp Starts Converges DeletionCompletes
\* Once the resource is gone nothing is left to do.
CHECK_DEADLOCK FALSE
