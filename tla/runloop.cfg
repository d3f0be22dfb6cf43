SPECIFICATION Spec
CONSTANTS
    Debounce = 2
    Stretch = 2
    IrCapacity = 2
    ClockSpan = 1024
    RtcRun = 9
    RtcPaused = 2
    SamplePeriod = 4
    RingSize = 5
    Ref = 4
    PerCycle <- PerCycleOf
    Grace = 7
    TraceSize = 5
    Vector = 1
    Start = 4
    LoopSpan = 3
    MaxSteps = 4
    ThisVersion = "this"
    OtherVersion = "other"
    Scenarios <- BothScenarios
INVARIANTS
    RunsAgree
CHECK_DEADLOCK FALSE
