CONSTANTS
    f1 = f1
    f2 = f2
    v1 = v1
    v2 = v2
    Empty = Empty
    Nil = Nil
    NoWish = NoWish
    Absent = Absent
    Unobserved = Unobserved
    OwnVal = {f1, f2}
    Val = {Empty, v1, v2}
    Ignorable = "extAttrs"
    SpecVal = {v1}
    Modes = {"enabled"}
    Wishes = {v2}
    MaxEdits = 0
    MaxWishes = 1
    MaxDrifts = 0
    MaxAborts = 0
SPECIFICATION FairSpec
PROPERTIES WritesEnd
