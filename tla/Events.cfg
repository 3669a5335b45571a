SPECIFICATION FairFeed
CONSTANTS
    MaxReads = 2
    MaxQueue = 1
    LogLimit = 1
    MaxLines = 2
    MaxFaults = 1
    MaxWindows = 1
INVARIANTS NoLineSkipped LossAnnounced ViewCurrent
PROPERTIES LinesGetOut
CHECK_DEADLOCK FALSE
