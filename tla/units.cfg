SPECIFICATION Spec
CONSTANTS
    Chosen <- EachUnit
    Periods <- PeriodValues
    Batches <- BatchSizes
    MaxElapsed = 600
    Debounce = 2
    Stretch = 4
    IrCapacity = 3
    ClockSpan = 1024
    Modes <- SomeModes
    Steps <- OneStep
    Leads <- Soon
    Cuts <- SmallCuts
    MaxRx = 3
    MaxTx = 4
    MaxSignals = 4
    MaxClock = 7
    FrameSize = 4
    Banks = 3
    BankSize = 4
    KeyOne = 6
    KeyTwo = 10
    Header <- HeaderBytes
    Jobs <- BothJobs
    Frames <- EachFrame
    HeaderWords <- HeaderParts
    Windows <- SomeWindows
    Stores <- AppStores
    MaxBytes = 3
    Row <- FewRows
    DefaultKey <- FewDefaults
    Keys <- FewKeys
    Nameless = {}
    RowOrder <- FewOrder
    Files <- SomeFiles
    BiosPaths = {"b"}
    DamagedStates = FALSE
    BareStates = FALSE
    CutLines = {1, 6, 11}
    MaxCommands = 4
INVARIANTS
    CountIsElapsedTime
    FilterIsExact
    VerifySucceeds
    TransmitIsExact
    ExchangesAreExact
    ReleaseEndsCommand
    SettingsSurvive
    LinkFollowsClock
    ShellShowsState
PROPERTIES
    ReloadIsPredicted
    QuietUntilEvent
    WritesHitTheirTarget
CHECK_DEADLOCK FALSE
