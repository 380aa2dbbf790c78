SPECIFICATION Spec
CONSTANTS
    a1 = a1
    a2 = a2
    r1 = r1
    r2 = r2
    s1 = s1
    Accounts = {a1, a2}
    Requests = {r1, r2}
    Sessions = {s1}
    NoAccount = NoAccount
    NoSession = NoSession
    SessionIds = {s1}
    MaxConcurrency = 1
    Threshold = 2
    MaxRetries = 1
    MaxGen = 2
    MaxEvents = 2
SYMMETRY Symmetry
VIEW Deciding
INVARIANTS
    PermitBound
PROPERTIES
    NoGrantWhileShut
    StickyHonoured
