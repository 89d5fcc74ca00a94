SPECIFICATION FairSpec
CONSTANTS
    Hosts = {c, a, b}
    Coordinator = c
    MaxNodeId = 2
    Services = {}
    NoConfig = NoConfig
    JoinSlots = {j1}
    KickSlots = {k1, k2}
    MaxUpdates = 4
PROPERTIES
    KickRemovesItsTarget
