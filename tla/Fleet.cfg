SPECIFICATION FairSpec
CONSTANTS
    m1 = m1
    m2 = m2
    m3 = m3
    r1 = r1
    r2 = r2
    Messages = {m1, m2}
    Durable = {m1, m2}
    Receivers = {r1, r2}
    To <- Addressees
    MaxPending = 2
    Capacity = 2
    Faults = {"sender", "host", "pairing", "receivers"}
    MaxFaults = 2
INVARIANTS
    HandledOnce
PROPERTIES
    SentIsHandled
