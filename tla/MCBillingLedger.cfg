SPECIFICATION FairSpec
CONSTANTS
    p1 = p1
    p2 = p2
    p3 = p3
    i1 = i1
    i2 = i2
    Records = {p1, p2, p3}
    Ids = {i1, i2}
    IdOf <- MCIdOf
    NoRow = NoRow
    Batch = 2
    MaxRuns = 2
INVARIANTS
    FlushedIsDecided
PROPERTIES
    KeepsPromise
    EveryRecordDecided
