SPECIFICATION FairSpec
CONSTANTS
    Hosts = {c, a, b}
    Coordinator = c
    MaxNodeId = 2
    Services = {s}
    NoConfig = NoConfig
    JoinSlots = {j1}
    KickSlots = {k1, k2}
    MaxUpdates = 4
INVARIANTS
    TypeOK
    PublishedConfigsValid
PROPERTIES
    CoordinatorNeverReverts
    PublishesConfig
    Converges
