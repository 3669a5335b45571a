SPECIFICATION Spec
CONSTANTS
    s1 = s1
    s2 = s2
    Session <- Sessions
    Cost <- Costs
    Delta <- Raising
    Milestone = 10
    Warn = 70
    Pause = 95
    MaxTotal = 14
    MaxBumps = 2
SYMMETRY Renaming
INVARIANTS StatusIsPressure OncePerCrossing NeverOvercharged
CHECK_DEADLOCK FALSE
