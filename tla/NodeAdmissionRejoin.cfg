CONSTANTS
    Hosts = {c, a}
    Coordinator = c
    MaxNodeId = 3
    Services = {}
    NoConfig = NoConfig
    TimerHosts = {}
    NoNode = NoNode
    MaxUpdates = 4
    MaxKicks = 1
    MaxFaults = 1
SPECIFICATION FairSpec
PROPERTY RemovedHostsRejoin
CHECK_DEADLOCK FALSE
