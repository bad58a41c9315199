SPECIFICATION FairSpec

CONSTANTS
    p1 = p1
    p2 = p2
    p3 = p3
    Procs <- ThreeProcs
    MAXMBOX = 3
    FirstFree = TRUE
    MAXSEMS = 1
    InitValues = {0, 2}
    Calls = {"SemCreate", "SemP", "SemV"}
    WildHandles <- BadHandles
    Zappable = {p1}
    NoMsg <- DocumentedNoMsg
    MaxUnits = 2
    MaxTableCalls = 1

CHECK_DEADLOCK FALSE

INVARIANT NoLostUnit
PROPERTY CountingSpec
PROPERTY HandlersEnd
