\* Two expectations of the reopening of the channels that fail, each reported
\* with -continue: does the process hold one descriptor for each channel at
\* most, and is the radio state the one mainLoop set once the channels are
\* open again?
SPECIFICATION Spec
CONSTANTS
    COMMAND_CHANNEL_NUMBER = 2
    MaxFiles = 5
    MaxRounds = 3
    CommandsPerCallback = 1
INVARIANTS
    OneDescriptorPerChannel
    RadioStateFollowsChannel
