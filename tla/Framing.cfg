SPECIFICATION Spec
CONSTANTS
    Traffic <- MCTraffic
    MaxItems = 2
INVARIANT
    ReadsWhatWasWritten
PROPERTY
    DeliversAll
CHECK_DEADLOCK FALSE
