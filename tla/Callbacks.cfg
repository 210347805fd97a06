\* Listeners, windows and a clock.
SPECIFICATION CallbacksSpec
CONSTANTS
    Objects = {o1, o2, o3}
    Priorities = {1, 2}
    MaxInstances = 2
    Windows = {w1, w2}
    MaxWindow = 2
    MaxLuaSteps = 6
INVARIANTS TypeOK EachOnce NoDanglingCall ExistsHasOwner KeepsWindow
SYMMETRY Symmetry
CHECK_DEADLOCK FALSE
