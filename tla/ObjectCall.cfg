SPECIFICATION Spec
CONSTANTS
    Floats = {f1}
    Symbols = {none, s1}
    Empty = none
    Userdata = {u1}
    IOs <- AllIOs
    Rings = 1
    Lists <- AllLists
    MaxMessages = 1
    MaxLeft = 2
INVARIANTS
    TypeOK
    ArgumentsArrive
    StackBalanced
    OutletsAsMeant
CHECK_DEADLOCK FALSE
