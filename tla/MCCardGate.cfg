SPECIFICATION FairSpec
CONSTANTS
    r1 = r1
    r2 = r2
    r3 = r3
    Requests = {r1, r2, r3}
    Face = 3
    Estimate = 2
    Amounts = {1}
    Slots = 2
    DegradedSlots = 1
    RequestsPerDay = 1
    CountModulus = 8
    MaxEvents = 1
CHECK_DEADLOCK FALSE
INVARIANTS
    LanesCounted
    NoSleepBeforeIdleCard
    HoldCovers
    NeverOvercharged
PROPERTIES
    WaitersProceed
