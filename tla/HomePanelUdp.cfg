SPECIFICATION FairSpec
CONSTANTS
    PanelAtStart <- MCPanel
    Links = {"v1"}
    Faulty = {"v1"}
    Calls <- MCCalls
    Services <- MCServices
    MaxCalls = 0
    MaxChanges = 2
    MaxDeaths = 1
PROPERTY
    Recovers
CHECK_DEADLOCK FALSE
