SPECIFICATION RegistrySpec
CONSTANTS
    Segments <- MCSegments
    Handlers = {h1, h2}
    Builtin <- MCBuiltin
    Alias <- kimi
    Default <- opus
    Managed <- MCManaged
    Rules <- MCRules
    RuledFamily <- opus
    Groups = {"g"}
    Members <- MCMembers
    UsedGroups = {}
    Lists <- ThreeLists
    PriceMaps <- MCPrices
    Seen <- MCSeen
    MaxJobs = 2
    MaxFaults = 1
SYMMETRY Symmetric
INVARIANTS RouteLawful ListedIsServed HiddenKept
CHECK_DEADLOCK FALSE
