CONSTANTS
    Subjects <- ServersOnly
    Policies = {"IfNotPresent"}
    Name = {"a"}
    None = None
    MaxEdits = 0
    MaxFaults = 0
SPECIFICATION FairSpec
PROPERTIES Identified
CHECK_DEADLOCK FALSE
