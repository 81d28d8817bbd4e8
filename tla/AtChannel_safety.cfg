SPECIFICATION AtSpec
CONSTANTS
    Channels = {0, 1}
    CHANNEL_DATA = 0
    CHANNEL_UNSOLICITED = 0
    ResponsePrefixes <- MCPrefixes
    CallPrefixes <- MCCallPrefixes
    SyncShapes <- MCSyncShapes
    AsyncShapes <- MCAsyncShapes
    UnsolLines <- MCUnsolLines
    MaxCalls = 2
    MaxIntermediate = 2
    MaxUnsol = 1
    WriteMayFail = TRUE
    SpuriousWakeups = FALSE
    NULL = NULL
INVARIANTS
    AtTypeOK
    OneCommandInFlight
    OutcomeBelongsToCommand
    IntermediatesInArrivalOrder
