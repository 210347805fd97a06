\* Both processes from bind to their ends.
SPECIFICATION ShutdownSpec
CONSTANTS
    MaxMessages = 2
    MaxCommands = 2
INVARIANTS TypeOK NoCallbackAfterStop DeadlockOnlyIfCaught AllRunBeforeQuit NothingToWake
PROPERTIES StopReturns Polls FairSpec
\* Both are gone, or stop() and the thread wait for each other.
CHECK_DEADLOCK FALSE
