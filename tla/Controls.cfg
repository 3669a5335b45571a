SPECIFICATION FairSpec
CONSTANTS
    s1 = s1
    s2 = s2
    Session <- Sessions
    NoSession = NoSession
    MaxWritten = 2
PROPERTIES ImplementsSlot PausedCookObeys
CHECK_DEADLOCK FALSE
