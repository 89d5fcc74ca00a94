SPECIFICATION Spec
CONSTANTS
    Services = {s1, s2, s3, s4}
    NotDeployed = NotDeployed
    PatroniStart = 1
    PatroniEnd = 7
    RestStart = 12
    WebStart = 17
    MaxPort = 18
    HttpDaemonPort = 16
INVARIANTS
    TypeOK
    DaemonPortFree
    PortsDistinct
    PortsSuffice
PROPERTIES
    PortsStable
