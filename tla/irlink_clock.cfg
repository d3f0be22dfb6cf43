SPECIFICATION Spec
CONSTANTS
    FrameTime = 2
    MaxFrame = 3
    MaxDelay = 1
    SampleDelay = 2
    Skew <- PeerBehind
    WindowSize = 2
    RelatchIdle = 7
    Playout = 10
    MessageGap = 2
    CoreStart = {10}
    MaxEdges = 2
    MaxSamples = 3
    MaxTime = 10
INVARIANTS
    OffsetError
    PlayoutIsExact
CHECK_DEADLOCK FALSE
