SPECIFICATION StreamSpec
CONSTANTS
    Tokens <- MCTokens
    CallIds <- MCCallIds
    CallNames = {"f", "g"}
    Fields <- MCFields
    NoText = NoText
    NoCount = NoCount
    NoPart = NoPart
    Dialects = {"Chat", "Anthropic", "Responses"}
    Frames <- MCFrames
    MaxFrames = 4
    ChunkFrames = 2
INVARIANTS
    EndedOnce
    StreamAgreesWithFull
    ClientReadsAnswer
    BlocksPaired
CHECK_DEADLOCK FALSE
