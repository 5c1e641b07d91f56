SPECIFICATION FairSpec
CONSTANTS
    NGroups = 2
    Silent = {2}
    MaxChanges = 2
    MaxFaults = 2
INVARIANTS
    TypeOK
    OneClientAtATime
    ListenerStopsAtShutdown
PROPERTIES
    LastEventKept
    SettlesOnPanel
CHECK_DEADLOCK FALSE
