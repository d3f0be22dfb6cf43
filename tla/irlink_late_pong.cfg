SPECIFICATION Spec
CONSTANTS
    a = a
    b = b
    Node <- TwoNodes
    Builds <- OneBuild
    Capacity = 4
    CoreCapacity = 2
    WireCapacity = 3
    MaxSessions = 1
    MaxEdges <- NoEdges
    MaxPings = 2
    Faults <- TimeoutFault
INVARIANTS
    SampleMatchesPing
