SPECIFICATION FairSpec

CONSTANTS
    MAXPROC = 9
    Procs <- NineSlots
    MAXMBOX = 12
    FirstFree = TRUE
    MAXSEMS = 3
    Start2 = 3
    Unbounded = 1000
    NoMsg <- LibraryNoMsg
    Tests <- ZappedWaiter

CHECK_DEADLOCK FALSE

PROPERTY TerminateEnds
