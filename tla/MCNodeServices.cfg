SPECIFICATION FairSpec
CONSTANTS
    Etcd = 0
    Services = {1}
    Versions = {v1, v2}
    NoFiles = NoFiles
    NoContainer = NoContainer
    MaxChanges = 3
    MaxFaults = 1
INVARIANTS
    TypeOK
    LastConfigWins
    NoStaleContainer
PROPERTIES
    SetupsDrain
    ServicesRecover
