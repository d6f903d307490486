SPECIFICATION Spec
CONSTANTS
    Ids = {i1, i2, i3}
    Threads = {t1, t2}
    MaxPending = 2
    MaxFaults = 1
SYMMETRY Symmetry
INVARIANTS
    AcceptedIsDurable
    SettledStaysDone
    LossIsBounded
