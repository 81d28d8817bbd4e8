\* Does a command asleep in at_send_command_sync keep its response when the
\* channels are opened again?
SPECIFICATION Spec
CONSTANTS
    COMMAND_CHANNEL_NUMBER = 2
    MaxFiles = 5
    MaxRounds = 3
    CommandsPerCallback = 1
INVARIANT SleeperKeepsItsResponse
