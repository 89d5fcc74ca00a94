SPECIFICATION Spec
CONSTANTS
    Hosts = {c, a}
    Coordinator = c
    MaxNodeId = 2
    Services = {s}
    NoConfig = NoConfig
    JoinSlots = {j1}
    KickSlots = {k1}
    MaxUpdates = 4
INVARIANTS
    UpToDateIsRecognised
