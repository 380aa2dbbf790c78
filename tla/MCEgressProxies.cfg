SPECIFICATION ProxySpec
CONSTANTS
    a1 = a1
    a2 = a2
    a3 = a3
    n1 = n1
    n2 = n2
    u1 = u1
    u2 = u2
    u3 = u3
    Requests = {r1, r2}
    Accounts = {a1, a2, a3}
    Nodes = {n1, n2}
    Urls = {u1, u2, u3}
    Configs <- Sections
    ManualNode <- Manual
    HashOf <- Hash
    FailThreshold = 1
    RrModulus = 2
    None = None
    MaxEdits = 1
    MaxProbes = 1
INVARIANTS EgressLawful CacheFresh BoundToKnown
SYMMETRY Symmetric
CHECK_DEADLOCK FALSE
