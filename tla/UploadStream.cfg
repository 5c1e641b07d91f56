SPECIFICATION FairSpec
CONSTANTS
    NNames = 2
    NPrograms = 3
    MaxStreams = 3
    MaxLosses = 1
    MaxCopies = 1
INVARIANTS
    TypeOK
    ProgramsComplete
    NamesComplete
    NeverRepeats
PROPERTIES
    EveryStreamReturns
CHECK_DEADLOCK FALSE
