SPECIFICATION DSpec
CONSTANTS
    Channels = {0, 1}
    CHANNEL_DATA = 1
    CHANNEL_UNSOLICITED = 0
    ResponsePrefixes <- MCPrefixes
    CallPrefixes = {}
    SyncShapes <- MCSyncShapes
    AsyncShapes <- MCAsyncShapes
    UnsolLines = {}
    MaxCalls = 6
    MaxIntermediate = 1
    MaxUnsol = 0
    WriteMayFail = FALSE
    SpuriousWakeups = FALSE
    NULL = NULL
    Requests <- MCRequests
    MaxRequests = 3
    MAX_SESSION_ID = 9999
INVARIANTS
    TokenCompletedOnce
    NoStrandedSession
    ConfirmFindsItsSession
PROPERTY
    EveryRequestCompletes
    ImplementsChannelService
