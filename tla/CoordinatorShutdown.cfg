SPECIFICATION Spec
CONSTANTS
    NGroups = 2
    Silent = {2}
    MaxChanges = 0
    MaxFaults = 1
INVARIANTS
    ShutdownClosesEverything
CHECK_DEADLOCK FALSE
