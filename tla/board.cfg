SPECIFICATION Spec
CONSTANTS
    Parts <- EachPart
    HostTimes <- BoardTimes
    Targets <- BoardTargets
    Orders <- BoardOrders
    MonthWraps = FALSE
    MaxPulses = 2
    LcdRows = 2
    LcdBytes = 2
    LcdBits = 2
    Pixels <- OneByte
    MaxWrites = 1
    Item <- Bits
    Zero = 0
    Old = 1
    EdgeSlots = 2
    SampleSlots = 2
    MinFrames = 2
    MaxFrames = 3
    Frame = 2
    Grace = 3
    LongestCall = 2
    Card <- Images
    Blocks = 3
    BlockFrames = 4
    Inputs <- SomeContent
    Stores <- SomeStores
    MaxStores = 2
    Client <- TwoClients
    HostNames = {"host"}
    Ports = {"1", "2"}
    DefaultPort = "1"
    Resolved <- SomeAddresses
    MaxAddresses = 2
INVARIANTS
    OutputFollowsRegisters
    WarnIffReplaced
    FilesRoundTrip
PROPERTIES
    ClockIsExact
    AdjustEnds
    RingsAreQueues
    ButtonsAreExact
    OverrideFollowsOwner
    ClientConnects
CHECK_DEADLOCK FALSE
