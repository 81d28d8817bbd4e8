\* Does process_cmd run only what was sent when a record arrives in two parts?
SPECIFICATION SockSpec
CONSTANTS
    BUFFER = 12
    RecvMayFail = FALSE
    SplitAt = {8}
    Argvs <- MCSockArgvs
    MaxClients = 3
    Stack <- MCStack
INVARIANT RunsWhatWasSent
