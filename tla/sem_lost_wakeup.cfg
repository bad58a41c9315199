SPECIFICATION Spec

CONSTANTS
    p1 = p1
    p2 = p2
    p3 = p3
    Procs <- TwoProcs
    MAXMBOX = 3
    FirstFree = TRUE
    MAXSEMS = 1
    InitValues = {0}
    Calls = {"SemCreate", "SemP", "SemV"}
    WildHandles = {}
    Zappable = {}
    NoMsg <- DocumentedNoMsg
    MaxUnits = 2
    MaxTableCalls = 1

SYMMETRY Symmetry

CHECK_DEADLOCK FALSE

INVARIANT NoStrandedWaiter
