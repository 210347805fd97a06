\* Ports that are taken, accepts that fail, two threads in get().
SPECIFICATION FairStartup
CONSTANTS
    Getters = {g1, g2}
    MaxTrials = 3
    Trouble = TRUE
INVARIANTS StartupTypeOK GetAfterBind
PROPERTIES GetReturns
\* Both processes are up, and a getter may sleep for ever.
CHECK_DEADLOCK FALSE
