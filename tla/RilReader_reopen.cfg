\* Does mainLoop open the channel again once the reader has closed it?
SPECIFICATION FairSpec
CONSTANTS
    Argvs <- MCRilArgvs
    MaxOpens = 3
PROPERTY ClosedChannelIsReopened
