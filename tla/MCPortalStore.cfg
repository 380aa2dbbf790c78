SPECIFICATION Spec
CONSTANTS
    Handlers = {h1, h2}
    Names = {alice, bob}
    Groups = {g1}
    Plans = {p1}
    Price <- Prices
    Tokens = {t1}
    Cards = {c1}
    OwnerOf <- Owners
    Deltas = {1}
    Opening = 3
    None = None
    Torn = Torn
    MaxJobs = 2
    MaxFaults = 1
INVARIANTS SnapshotsSound ChargedIffDelivered BalanceExplained FileFollowed
SYMMETRY Symmetric
CHECK_DEADLOCK FALSE
