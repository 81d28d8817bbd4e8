SPECIFICATION AtSpec
CONSTANTS
    Channels = {0, 1}
    CHANNEL_DATA = 0
    CHANNEL_UNSOLICITED = 0
    ResponsePrefixes <- MCPrefixes
    CallPrefixes <- MCCallPrefixes
    SyncShapes <- MCSyncShapes
    AsyncShapes <- MCAsyncShapes
    UnsolLines <- MCUnsolLinesLive
    MaxCalls = 2
    MaxIntermediate = 1
    MaxUnsol = 1
    WriteMayFail = TRUE
    SpuriousWakeups = FALSE
    NULL = NULL
PROPERTY
    EveryCommandCompletes
CHECK_DEADLOCK FALSE
