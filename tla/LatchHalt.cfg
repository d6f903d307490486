SPECIFICATION Spec
CONSTANTS
    Callers = {c1}
    Agents = {}
    Kinds <- AllKinds
    Storm = 2
    MayRefuse = FALSE
    Loop = Loop
PROPERTIES
    HaltIsTerminal
