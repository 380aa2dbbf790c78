SPECIFICATION Spec
CONSTANTS
    r1 = r1
    r2 = r2
    r3 = r3
    NoSem = NoSem
    Requests = {r1, r2}
    PortalKeys = {"uk"}
    ApiKeys = {"sk"}
    Cards = {"card"}
    Semaphores = {1, 2, 3, 4, 5}
    Caps = {1, 2}
    Holds = {2}
    Amounts = {1, 3}
    InitialCredit = 3
    MaxEvents = 2
SYMMETRY RequestSymmetry
CHECK_DEADLOCK FALSE
INVARIANTS
    NoOverspend
    WalletExact
    ServedIsPaid
    RecordedOnce
    ApiKeyCap
