\* Two expectations of wificonnect that fail, each reported with -continue:
\* does select_network name the network add_network created, and does the
\* wait for the connection end on CONNECTED only?
SPECIFICATION Spec
CONSTANTS
    Stored = {0}
    Events <- MCEvents
    MaxEvents = 3
INVARIANTS
    ConfiguresOnlyItsOwnNetwork
    WaitEndsOnConnected
