SPECIFICATION FairSpec
CONSTANTS
    Nodes = {1, 2}
    Services = {1, 2}
    Coordinator = 1
    NoReport = NoReport
    MaxElections = 1
    MaxUpgrades = 1
    MaxFaults = 1
INVARIANTS
    TypeOK
    LeaderNotRebooted
PROPERTIES
    LeadershipsBalanced
    RebootsHappen
