CONSTANTS
    f1 = f1
    f2 = f2
    v1 = v1
    v2 = v2
    Empty = Empty
    Nil = Nil
    NoWish = NoWish
    Absent = Absent
    Unobserved = Unobserved
    OwnVal = {f1, f2}
    Val = {Empty, v1, v2}
    Ignorable = "comment"
    SpecVal = {Nil, v1}
    Modes = {"enabled", "warn"}
    Wishes = {v1, v2}
    MaxEdits = 1
    MaxWishes = 2
    MaxDrifts = 1
    MaxAborts = 1
SPECIFICATION FairSpec
INVARIANTS TypeOK
PROPERTIES KeepsOwner Settles WritesEnd
