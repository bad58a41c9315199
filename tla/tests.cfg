SPECIFICATION FairSpec

CONSTANTS
    MAXPROC = 9
    Procs <- NineSlots
    MAXMBOX = 18
    FirstFree = TRUE
    MAXSEMS = 3
    Start2 = 3
    Unbounded = 1000
    NoMsg <- LibraryNoMsg
    Tests <- AllTests

CHECK_DEADLOCK FALSE

INVARIANT AsRecorded
INVARIANT TablesLocked
INVARIANT CleanEnd
INVARIANT HandlesGood
INVARIANT Promises
INVARIANT SemPromises
PROPERTY UsersRefined
PROPERTY Completes
