SPECIFICATION Spec
CONSTANTS
    k1 = k1
    k2 = k2
    Handlers = {h1, h2}
    KeyNames = {k1, k2, k3}
    Values = {v1, v2}
    FirstKeys <- TwoKeys
    Torn = Torn
    Absent = Absent
    MaxJobs = 2
    MaxFaults = 1
INVARIANTS TornOnlyByOverlap EditsConverge
CHECK_DEADLOCK FALSE
