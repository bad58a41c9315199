SPECIFICATION Spec

CONSTANTS
    MAXPROC = 4
    Procs <- FourSlots
    MAXMBOX = 4
    FirstFree = TRUE
    Start2 = 1
    ProcTableMutex = 0
    MaxPid = 4
    Spawners <- EverySlot

CHECK_DEADLOCK FALSE

INVARIANT QuitsWithoutChildren
