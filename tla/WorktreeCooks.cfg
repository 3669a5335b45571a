CONSTANTS
    Proc = {p1, p2, p3}
    Task = {t1}
    NoProc = NoProc
    Free = Free
    Abandoned = Abandoned
    Operator <- NoOperator
    ForceLive = FALSE
SPECIFICATION Spec
CHECK_DEADLOCK FALSE
SYMMETRY PidSymmetry
INVARIANTS
    LiveOwnerLocked
    JournalLagsLock
    JournalIsFsmPath
    NoLockLeak
