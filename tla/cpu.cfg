SPECIFICATION Spec
CONSTANTS
    Span = 256
    Bits = 8
    Amounts = 16
    Unbanked <- SomeUnbanked
    High <- OneHigh
    Map <- MemoryMap
    Rom <- BiosBytes
    Values <- OneValue
    MaxNest = 3
    MaxWork = 6
    Operands <- SomeOperands
    ThumbCode <- EveryThumb
    Code <- Steps
    MaxCode = 2
INVARIANTS
    InstructionsAgree
    ArithmeticIsExact
PROPERTIES
    ImplementsRegisterFile
    HandlersAreTransparent
CHECK_DEADLOCK FALSE
