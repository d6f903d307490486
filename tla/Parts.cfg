SPECIFICATION PartsSpec
CONSTANTS
    Self = self
    Peers = {peer}
    Sent = {1}
    Contents = {c1, c2}
    Nothing = nothing
    Threads = {t1, t2}
    MaxRows = 2
    MaxEvicted = 1
    wall = wall
    door = door
    cart = cart
    cloud = cloud
    Observations = {wall, door, cart, cloud}
    At <- MCAt
    Entity <- MCEntity
    Half = 8
    MaxDepth = 3
    MaxPerLeaf = 1
    MaxRebuilds = 2
    Centres <- MCCentres
    Radii = {0, 1, 4}
    near = near
    far = far
    aside = aside
    Requested = {ask}
    Asked = {near, far, aside}
    Far = {far, aside}
    Withheld = {}
    Reticent = {aside}
    Refused = {}
    Worker <- MCWorker
    Facts <- MCFacts
    MaxLost = 2
    Clients = {page}
    RingSize = 1
    QueueSize = 2
    MaxMade = 3
    MaxRestarts = 1
INVARIANTS
    PartsTypeOK
    
    SphereIsExact
    
    VerifyIsQuiet
    LossIsNoticed
    ClientsMissNothing

    
    
    
CHECK_DEADLOCK FALSE
