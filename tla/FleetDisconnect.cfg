SPECIFICATION FairSpec
CONSTANTS
    m1 = m1
    m2 = m2
    m3 = m3
    r1 = r1
    r2 = r2
    Messages = {m1}
    Durable = {m1}
    Receivers = {r1}
    To <- Addressees
    MaxPending = 2
    Capacity = 2
    Faults = {"receivers"}
    MaxFaults = 1
PROPERTIES
    AtLeastOnce
