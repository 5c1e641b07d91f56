SPECIFICATION FairSpec
CONSTANTS
    c1 = c1
    c2 = c2
    r1 = r1
    r2 = r2
    Conns = {c1}
    Calls = {r1, r2}
    WrongKey = {}
    PushCalls = {r1}
    Transport = "tcp"
    MaxSeq = 4
    Owner <- OneOwner
    Retries = 1
    Faults = {"busy", "terminate", "garbage", "drop"}
    MaxSid = 1
INVARIANTS
    CloseLeavesNoWaiter
    TcpExecutesAtMostOnce
    BadKeyIsBadKey
PROPERTIES
    EveryCallReturns
    EveryConnectReturns
    CloseReleasesPanel
CHECK_DEADLOCK FALSE
