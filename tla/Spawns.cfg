SPECIFICATION FairSpawn
CONSTANTS
    a = a
    b = b
    c = c
    Provider <- Providers
    Fallbacks <- Others
    RetryBudget = 3
    Scripts = 2
    MaxEvents = 2
INVARIANTS Bracketed
PROPERTIES ImplementsFailover SpawnEnds
CHECK_DEADLOCK FALSE
