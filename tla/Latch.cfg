SPECIFICATION FairSpec
CONSTANTS
    Callers = {c1, c2}
    Agents = {a1}
    Kinds <- AllKinds
    Storm = 2
    MayRefuse = TRUE
    Loop = Loop
INVARIANTS
    ClaimWasEngaged
    ClaimAgreesWithLatch
PROPERTIES
    LostAgentIsLatched
