SPECIFICATION Spec
CONSTANTS
    c1 = c1
    c2 = c2
    r1 = r1
    r2 = r2
    Conns = {c1}
    Calls = {r1, r2}
    WrongKey = {}
    PushCalls = {}
    Transport = "udp"
    MaxSeq = 3
    Owner <- OneOwner
    Retries = 1
    Faults = {"terminate"}
    MaxSid = 1
SYMMETRY CallSymmetry
INVARIANTS
    TypeOK
    AnswersMatchRequests
    WaitersAreRegistered
    OnlyPushesAreQueued
PROPERTIES
    NothingAfterSessionEnd
    ImplementsRequestReply
CHECK_DEADLOCK FALSE
