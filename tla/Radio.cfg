SPECIFICATION RadioSpec
CONSTANTS
    short = short
    long = long
    task = task
    loop = loop
    chain = chain
    Transports = {}
    Threads = {}
    Messages = {}
    RawMessages = {}
    Broadcasts = {}
    Addressed = {}
    Accepts = {}
    Fits = {}
    Carriable = {}
    Raising = {}
    Threshold = 1
    Cooldown = 1
    Frames <- MCFrames
    Class <- MCClass
    Pieces <- MCPieces
    Drainers = {loop, chain}
    MaxQueue = 2
    MaxPending = 1
    Budget = 1
    MaxFaults = 1
    MaxAir = 1
INVARIANTS
    LeavesOnlyWritten
    
    
 
CHECK_DEADLOCK FALSE
