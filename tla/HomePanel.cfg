SPECIFICATION FairSpec
CONSTANTS
    PanelAtStart <- MCPanel
    Links = {"v1", "v2"}
    Faulty = {"v2"}
    Calls <- MCCalls
    Services <- MCServices
    MaxCalls = 2
    MaxChanges = 1
    MaxDeaths = 1
INVARIANTS
    TypeOK
    ShowsPanel
    QuietAgrees
    SnapshotsAgree
PROPERTY
    Recovers
CHECK_DEADLOCK FALSE
