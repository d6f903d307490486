SPECIFICATION FairSpec
CONSTANTS
    tcp = tcp
    relay = relay
    task = task
    fleet = fleet
    Transports = {tcp, relay}
    Threads = {h1, h2}
    Messages = {task, fleet}
    RawMessages = {task}
    Broadcasts = {fleet}
    Addressed = {relay}
    Accepts <- Everything
    Fits <- Everything
    Carriable <- AddressedMedia
    Raising = {relay}
    Threshold = 2
    Cooldown = 1

    
PROPERTIES
    HealthyTransportCloses
