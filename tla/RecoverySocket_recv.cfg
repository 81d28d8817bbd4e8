\* Does process_cmd run only what was sent when recv may fail?
SPECIFICATION SockSpec
CONSTANTS
    BUFFER = 12
    RecvMayFail = TRUE
    SplitAt = {}
    Argvs <- MCSockArgvs
    MaxClients = 3
    Stack <- MCStack
INVARIANT RunsWhatWasSent
