SPECIFICATION Spec
CONSTANTS
    c1 = c1
    c2 = c2
    c3 = c3
    h1 = h1
    h2 = h2
    Call = {c1, c2}
    Host = {h1}
    HostOf <- OneHost
    CanCreate = {c1}
    Nobody = Nobody
    TTL = 2
    MaxLag = 1
    MaxFaults = 1
    MaxAdmin = 2
INVARIANTS NoFalseRefusal
