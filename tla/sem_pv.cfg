SPECIFICATION Spec

CONSTANTS
    p1 = p1
    p2 = p2
    p3 = p3
    Procs <- ThreeProcs
    MAXMBOX = 5
    FirstFree = TRUE
    MAXSEMS = 2
    InitValues = {0, 1}
    Calls = {"SemCreate", "SemP", "SemV"}
    WildHandles = {}
    Zappable = {p1}
    NoMsg <- LibraryNoMsg
    MaxUnits = 1
    MaxTableCalls = 2

CHECK_DEADLOCK FALSE

INVARIANT SemMutexExclusion
INVARIANT NoPhantomUnit
INVARIANT TableAccounting
PROPERTY CountingSpec
