SPECIFICATION Spec
CONSTANTS
    Etcd = 0
    Services = {1}
    Versions = {v1, v2}
    NoFiles = NoFiles
    NoContainer = NoContainer
    MaxChanges = 2
    MaxFaults = 2
SYMMETRY AlikeVersions
INVARIANTS
    DeploymentTakesEffect
