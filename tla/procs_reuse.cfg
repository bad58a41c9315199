SPECIFICATION FairSpec

CONSTANTS
    MAXPROC = 4
    Procs <- FourSlots
    MAXMBOX = 5
    FirstFree = TRUE
    Start2 = 1
    ProcTableMutex = 0
    MaxPid = 5
    Spawners <- EverySlot

CHECK_DEADLOCK FALSE

INVARIANT TypeOK
INVARIANT OwnProgram
INVARIANT ChildListsMatch
INVARIANT NoMailboxLeft
INVARIANT NothingLeft
PROPERTY TerminateEnds
INVARIANT ProcTableExclusion
INVARIANT ZapsOwnChildren
INVARIANT ChildrenFirst
PROPERTY HaltsOnlyInForkOrQuit
