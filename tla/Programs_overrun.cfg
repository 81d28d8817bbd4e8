SPECIFICATION Spec
CONSTANTS
    MAX_NMEA_TOKENS = 32
    NMEA_MAX_SIZE = 83
    GPS_MAX_SVS = 5
    MaxLoads = 2
    MaxSentences = 2
    Today <- MCToday
    Sentences <- MCSentencesOfNine
    CallbackSets <- MCCallbackSets
    RilArgvs <- MCRilArgvs
    MaxOpens = 3
    Stored = {0}
    Events <- MCEvents
    MaxEvents = 3
    BUFFER = 12
    RecvMayFail = FALSE
    SplitAt = {}
    SockArgvs <- MCSockArgvs
    SockClients = 3
    SockStack <- MCStack
    RecArgvs <- MCRecArgvs
    RecClients = 1
    RecStack <- MCRecStack
    KeyRuns <- MCKeyRuns
    Commands <- MCCommands
    CachePackages = {"CACHE:ota.zip"}
    SdPackages = {"SDCARD:update/a.zip"}
    MaxForks = 1
    Listings <- MCListings
    TABLE = 2
    POINTER = 4
    MaxVisits = 2
    Raws <- MCRaws
    Randoms <- MCRandoms
    Uids <- MCUids
    SIGNATURE = 8
    AuthRoom = 6
    BUF = 1024
    Bodies <- MCBodies
    MAX_HTTP_RESPONSE_SIZE = 4
    MaxStreams = 2
    MaxRequests = 4
    Alphabet = {"O", "K", "N", "o", "t", "5", "x"}
    MaxText = 3
    PduArgvs <- MCPduArgvs
    BufSize = 12
INVARIANT SvListWithinBounds
