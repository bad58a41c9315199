SPECIFICATION Spec

CONSTANTS
    p1 = p1
    p2 = p2
    p3 = p3
    Procs <- TwoProcs
    MAXMBOX = 3
    FirstFree = TRUE
    MAXSEMS = 1
    InitValues = {0}
    Calls = {"SemCreate"}
    WildHandles = {}
    Zappable = {}
    NoMsg <- LibraryNoMsg
    MaxUnits = 2
    MaxTableCalls = 2

SYMMETRY Symmetry

CHECK_DEADLOCK FALSE

INVARIANT InsideTable
