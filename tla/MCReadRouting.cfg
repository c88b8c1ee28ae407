SPECIFICATION FairSpec
CONSTANTS
    r1 = r1
    r2 = r2
    r3 = r3
    NoTime = NoTime
    None = None
    Corrupt = Corrupt
    Resource = {r1, r2}
    PrimaryOnly = {r2}
    FirstSerial = 0
    SerialMod = 8
    Timeout = 1
    MaxWrites = 2
    MaxFaults = 1
    Threshold = 2
    Backoff = 1
    MaxCount = 2
INVARIANTS TypeOK ReadYourWrites
PROPERTIES Unpinned Resumes
