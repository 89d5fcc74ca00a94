CONSTANTS
    Hosts = {c, a, b}
    Coordinator = c
    MaxNodeId = 3
    Services = {}
    NoConfig = NoConfig
    TimerHosts = {a}
    NoNode = NoNode
    MaxUpdates = 3
    MaxKicks = 1
    MaxFaults = 2
SPECIFICATION FairSpec
INVARIANTS
    TypeOK
    MembersCoverConfig
    AnsweredJoinsLast
    LeftMembersReused
PROPERTY HostsJoin
CHECK_DEADLOCK FALSE
