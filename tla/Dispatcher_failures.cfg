SPECIFICATION DSpec
CONSTANTS
    Channels = {0}
    CHANNEL_DATA = 0
    CHANNEL_UNSOLICITED = 0
    ResponsePrefixes <- MCPrefixes
    CallPrefixes = {}
    SyncShapes <- MCSyncShapes
    AsyncShapes <- MCAsyncShapes
    UnsolLines <- MCUnsolLines
    MaxCalls = 9
    MaxIntermediate = 1
    MaxUnsol = 1
    WriteMayFail = TRUE
    SpuriousWakeups = FALSE
    NULL = NULL
    Requests <- MCRequestsAsync
    MaxRequests = 3
    MAX_SESSION_ID = 9999
INVARIANTS
    DTypeOK
    ServedInArrivalOrder
    IdleChannelIsScheduled
