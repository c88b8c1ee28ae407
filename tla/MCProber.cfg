SPECIFICATION FairSpec
CONSTANTS
    c1 = c1
    c2 = c2
    c3 = c3
    h1 = h1
    h2 = h2
    Call = {c1, c2, c3}
    Host = {h1, h2}
    HostOf <- HostOfTwo
    CanCreate = {c1, c2}
    Nobody = Nobody
    TTL = 2
    MaxLag = 1
    MaxFaults = 1
    MaxAdmin = 1
INVARIANTS TypeOK OneProbe StaleBounded NoFalseRefusal
PROPERTIES Recovers
