\* The clock of examples/pd/metro, which unsets it to stop.
SPECIFICATION CallbacksSpec
CONSTANTS
    Objects = {o1}
    Priorities = {1}
    MaxInstances = 1
    Windows = {w1}
    MaxWindow = 1
    MaxLuaSteps = 3
PROPERTIES NoCallAfterUnset
CHECK_DEADLOCK FALSE
