\* Each of the four invariants is violated; TLC reports them all with -continue.
SPECIFICATION Spec
CONSTANTS
    Listings <- MCListings
    TABLE = 2
    POINTER = 4
    KeyRuns <- MCKeyRuns
    MaxVisits = 2
INVARIANTS
    RunsAScriptOfTheDirectory
    MenuHasAnItemForEachScript
    StaysInTheTables
    DirectoryIsOpened
