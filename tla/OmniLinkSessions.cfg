SPECIFICATION Spec
CONSTANTS
    c1 = c1
    c2 = c2
    r1 = r1
    r2 = r2
    Conns = {c1, c2}
    Calls = {r1}
    WrongKey = {c2}
    PushCalls = {r1}
    Transport = "udp"
    MaxSeq = 4
    Owner <- OneOwner
    Retries = 0
    Faults = {}
    MaxSid = 2
INVARIANTS
    OnlineMeansAccepted
CHECK_DEADLOCK FALSE
