SPECIFICATION FairSpec

CONSTANTS
    p1 = p1
    p2 = p2
    p3 = p3
    Procs <- TwoProcs
    MAXMBOX = 5
    FirstFree = TRUE
    MAXSEMS = 2
    InitValues = {0, 1}
    Calls = {"SemCreate", "SemP", "SemV", "SemFree"}
    WildHandles = {}
    Zappable = {p1}
    NoMsg <- LibraryNoMsg
    MaxUnits = 1
    MaxTableCalls = 3

CHECK_DEADLOCK FALSE

INVARIANT TypeOK
INVARIANT SemsMutexExclusion
INVARIANT MailboxesOwned
PROPERTY TableHandlersEnd
