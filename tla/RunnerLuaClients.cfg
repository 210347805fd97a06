\* A define object and a client of the same name.
SPECIFICATION Spec
CONSTANTS
    Addresses = {1, 2}
    Names = {x}
    Scripts = {"good"}
    MaxObjects = 2
    MaxScripts = 1
    MaxPipe = 3
INVARIANTS ClientsCall
CHECK_DEADLOCK FALSE
