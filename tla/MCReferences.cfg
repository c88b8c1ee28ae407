CONSTANTS
    Subjects <- AllReferences
    Policies = {"IfNotPresent", "Always"}
    Name = {"a", "b"}
    None = None
    MaxEdits = 2
    MaxFaults = 1
SPECIFICATION FairSpec
INVARIANTS TypeOK Placed
PROPERTIES Kept Settles
\* An unresolved reference waits for its target.
CHECK_DEADLOCK FALSE
