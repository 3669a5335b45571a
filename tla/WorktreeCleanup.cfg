CONSTANTS
    Proc = {p1, p2}
    Task = {t1}
    NoProc = NoProc
    Free = Free
    Abandoned = Abandoned
    Operator <- AllCleanup
    ForceLive = FALSE
SPECIFICATION FairSpec
CHECK_DEADLOCK FALSE
INVARIANT WorktreeIsolation
PROPERTY ImplementsSlots
PROPERTY StaleLocksGo
