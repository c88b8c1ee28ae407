CONSTANTS
    Slices <- Settled
    Absent = Absent
    FaceValued <- TakenAtFace
    MaxEdits = 1
    MaxDrifts = 1
    MaxAborts = 1
SPECIFICATION FairSpec
INVARIANTS TypeOK PutSettles Comparable
PROPERTIES LeavesAlone Obeys WritesEnd Mirrors
