SPECIFICATION Spec
CONSTANTS
    n1 = n1
    n2 = n2
    c1 = c1
    c2 = c2
    NoNetwork = NoNetwork
    Server = Server
    NoTask = NoTask
    Networks <- OneNetwork
    Connectors <- TwoConnectors
    BootLists <- ShortBoot
    MaxTries = 1
    Grace = 2
    Turns = 4
    MaxServers = 2
SYMMETRY ConnectorSymmetry
INVARIANTS
    TypeOK
    StationServed
PROPERTIES
    ProvisioningServed
    GraceKept
