SPECIFICATION FairSpec
CONSTANTS
    Proc <- Pids
    NoProc = 0
CONSTRAINTS InOrder SomeKept
INVARIANT OneCook
PROPERTY CompletedNotResumed
PROPERTY LiveRecordKept
PROPERTY ImplementsSessions
PROPERTY StaleRecordYields
\* Every cook has been run.
CHECK_DEADLOCK FALSE
