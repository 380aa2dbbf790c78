SPECIFICATION ShapingSpec
CONSTANTS
    Accounts = {"a1", "a2"}
    Clients <- SomeClients
    Texts <- FiveTexts
    ToolOf <- TwoTools
    Images = {"none", "data"}
    MaxTurns = 5
    MaxRetries = 2
CHECK_DEADLOCK FALSE
INVARIANTS ResultsFollowCalls DialectsAgree CacheKept
