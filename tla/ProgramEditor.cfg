SPECIFICATION Spec
CONSTANTS
    NSlots = 4
    e1 = e1
    e2 = e2
    Editors = {e1, e2}
    Layouts <- FourSlots
    MaxConditions = 1
    MaxActions = 2
    MaxCommands = 2
    MaxFaults = 1
SYMMETRY EditorSymmetry
INVARIANTS
    TypeOK
    CacheWasGiven
    CacheAgrees
    NeverTramplesAlone
    LeftOversGone
CHECK_DEADLOCK FALSE
