SPECIFICATION Spec
CONSTANTS
    p1 = p1
    Handlers = {h1, h2}
    CardKeys = {k1, k2}
    Plans = {p1, p2}
    Preset <- TwoPlans
    MaxLanes = 2
    ExtraHours = 1
    TrustHours = 1
    RejectHours = 1
    StartTime = 5
    Policies = {v1, v2}
    MaxJobs = 2
    MaxFaults = 2
    MaxTicks = 2
SYMMETRY Symmetric
INVARIANTS RestartLosesNothing PaidTimeKept
CHECK_DEADLOCK FALSE
