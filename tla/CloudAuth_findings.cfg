\* Eleven expectations the key service client and the cloud storage client do
\* not meet.  tlc -continue reports each of them.
SPECIFICATION Spec
CONSTANTS
    Raws <- MCRaws
    Randoms <- MCRandoms
    Uids <- MCUids
    SIGNATURE = 8
    AuthRoom = 6
    BUF = 1024
    Bodies <- MCBodies
    MAX_HTTP_RESPONSE_SIZE = 4
    MaxFiles = 2
    MaxRequests = 4
INVARIANTS
    SendsTheEncodedSignature    \* Is the key service sent the encoded signature?
    WallpaperKeptOrDownloaded    \* Is the wallpaper whole after a download that failed?
    UpdateOfferedAfterAuthentication    \* Are the update scripts offered only after the authentication?
    SignsTheRandomGiven    \* Is the text that is signed the random number the key service gave?
    SuccessMeansStored    \* Does a transfer count as done when the cloud answered it with 200?
    StreamIsOpened    \* Are fread and fclose given a stream?
    TerminatorInsideSignature    \* Are the terminators of the signature written inside the arrays?
    AuthenticatedMeansVerified    \* Is a signature taken for authenticated when the key service verified it?
    ReplyInsideBuf    \* Does the reply of the key service fit the buf of the request?
    KeyDirectoryIsOpened    \* Is readdir given a directory?
PROPERTY
    HeaderCarriesTheToken    \* Does the header of a transfer carry the whole token?
