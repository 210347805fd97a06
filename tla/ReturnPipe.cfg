\* Every binding, the main thread and a clock, a patch that is being edited.
SPECIFICATION FairSpec
CONSTANTS
    Threads = {main, clock}
    Objects = {o1}
    Ops <- AllOps
    Sizes = {1}
    MaxRequests = 3
    Edits = TRUE
INVARIANTS TypeOK OwnAnswer
PROPERTIES CallsReturn
\* All requests are sent, and a thread may wait for ever.
CHECK_DEADLOCK FALSE
