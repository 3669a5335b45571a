SPECIFICATION FairSpec
CONSTANTS
    a = a
    b = b
    c = c
    d = d
    Task <- Tasks
    Plans <- SmallPlans
CHECK_DEADLOCK FALSE
INVARIANTS
    DepsFirst
    Earliest
    ResidualIsBlocked
    AllScheduled
