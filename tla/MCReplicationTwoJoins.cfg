SPECIFICATION Spec
CONSTANTS
    Hosts = {c, a, b}
    Coordinator = c
    MaxNodeId = 3
    Services = {}
    NoConfig = NoConfig
    JoinSlots = {j1, j2}
    KickSlots = {k1}
    MaxUpdates = 2
SYMMETRY Interchangeable
INVARIANTS
    CurrentConfigLoads
