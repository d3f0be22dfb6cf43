SPECIFICATION FairSpec
CONSTANTS
    a = a
    b = b
    Node <- TwoNodes
    Builds <- OneBuild
    Capacity = 4
    CoreCapacity = 2
    WireCapacity = 2
    MaxSessions = 1
    MaxEdges <- TwoAndOne
    MaxPings = 2
    Faults <- NoFaults
INVARIANTS
    SampleMatchesPing
PROPERTIES
    NoEdgeBeforeSync
    SyncEnds
    EdgesArrive
