SPECIFICATION Spec
CONSTANTS
    a = a
    b = b
    Node <- TwoNodes
    Builds <- TwoBuilds
    Capacity = 2
    CoreCapacity = 2
    WireCapacity = 2
    MaxSessions = 2
    MaxEdges <- TwoAndNone
    MaxPings = 1
    Faults <- AllFaults
PROPERTIES
    ImplementsEdgeChannel
