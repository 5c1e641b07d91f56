SPECIFICATION Spec
CONSTANTS
    owner = owner
    Callers = {owner}
    Programs <- MCPrograms
    Location <- MCLocation
    PanelAtStart <- MCPanel
    UseStateEvaluator = TRUE
    Moments <- MCMoments
    Events <- MCEvents
    ClientCommands <- MCClientCommands
    Overlap = FALSE
    MaxStarts = 2
INVARIANTS
    TypeOK
    FiresWhenDue
    EventFiresSubscribers
    StopLeavesNoWorker
PROPERTY
    StopReturns
CHECK_DEADLOCK FALSE
