SPECIFICATION PipeSpec
CONSTANTS
    MessageSize = 2
    QueueSlots = 2
    WriteBuffer = 3
    ReadBuffer = 2
    OsBuffer = 2
    EdgeCount = 2
    Connections = 1
PROPERTIES
    PipeIsAStream
    EdgeArrives
CHECK_DEADLOCK FALSE
