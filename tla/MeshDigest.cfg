SPECIFICATION FairSpec
CONSTANTS
    a = a
    b = b
    Nodes = {a, b}
    Keys <- TwoFacts
    Workers = {w1}
    Syncers = {b}
    Pruners = {}
    Private = {}
    Media = {FALSE}
    SalienceCap = 1
    Saliences = {1}
    MaxItems = 2
    MaxPerDigest = 1
    MaxWrites = 1
    MaxLink = 1
    MaxLoss = 1
CHECK_DEADLOCK FALSE
PROPERTY DigestsRepair
