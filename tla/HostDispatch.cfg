\* Every message and edit, also edits in answer to a message.
SPECIFICATION FairSpec
CONSTANTS
    Addresses = {a1, a2}
    Kinds = {"send", "outlet"}
    Edits = TRUE
    Reentry = TRUE
    MaxMessages = 2
    MaxGeneration = 2
INVARIANTS TypeOK NoDeadObject HalfBuiltOnlyByReuse
PROPERTIES ExactlyOnce HandedOn
\* The messages are handed on and Pd makes and frees no more objects, or
\* the two threads wait for each other's lock.
CHECK_DEADLOCK FALSE
