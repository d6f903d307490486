SPECIFICATION Spec
CONSTANTS
    a = a
    b = b
    Nodes = {a, b}
    Keys <- OneFact
    Workers = {w1}
    Syncers = {a}
    Pruners = {a, b}
    Private = {}
    Media = {TRUE, FALSE}
    SalienceCap = 2
    Saliences = {1}
    MaxItems = 64
    MaxPerDigest = 1
    MaxWrites = 2
    MaxLink = 2
    MaxLoss = 0
CHECK_DEADLOCK FALSE
INVARIANTS
    Provenance
    QuietPeersAgree
    ForgottenStaysForgotten
PROPERTIES
    OriginKeepsItsFacts
    
