\* Is every token completed once, and is no session left behind, when a
\* write to the tty may fail?  (tlc -continue reports both.)
SPECIFICATION DSpec
CONSTANTS
    Channels = {0, 1}
    CHANNEL_DATA = 1
    CHANNEL_UNSOLICITED = 0
    ResponsePrefixes <- MCPrefixes
    CallPrefixes = {}
    SyncShapes <- MCSyncShapes
    AsyncShapes <- MCAsyncShapes
    UnsolLines = {}
    MaxCalls = 6
    MaxIntermediate = 1
    MaxUnsol = 0
    WriteMayFail = TRUE
    SpuriousWakeups = FALSE
    NULL = NULL
    Requests <- MCRequests
    MaxRequests = 3
    MAX_SESSION_ID = 9999
INVARIANTS
    TokenCompletedOnce
    NoStrandedSession
