SPECIFICATION FairSpec
CONSTANTS
    t1 = t1
    t2 = t2
    t3 = t3
    l1 = l1
    l2 = l2
    upper = upper
    lower = lower
    other = other
    i1 = i1
    i2 = i2
    NoTask = NoTask
    Lane <- Lanes
    Task <- Tasks
    Path <- Paths
    Id <- Ids
    IdentifierFor <- Identifiers
    Batch <- Batches
CHECK_DEADLOCK FALSE
INVARIANTS NoSharedFile ClaimsAccounted
PROPERTIES ImplementsClaimTable BatchesEnd
