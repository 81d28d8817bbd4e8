\* Do the channels come back, with a reader on the right descriptors, after
\* the reader thread has failed?
SPECIFICATION FairSpec
CONSTANTS
    COMMAND_CHANNEL_NUMBER = 2
    MaxFiles = 5
    MaxRounds = 3
    CommandsPerCallback = 1
INVARIANTS
    ReaderSelectsTheChannels
PROPERTY ClosedChannelsAreReopened
