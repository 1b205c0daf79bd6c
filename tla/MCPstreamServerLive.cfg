CONSTANTS
    Conn = {"a", "b"}
    KernelSize = 1
    RecvSize = 1
    Pieces = {1}
    Packets <- ShortPackets
    Calls <- ShortCalls
    ShutdownCall <- EmptyCall
    Answer <- ShortAnswer
    Window <- Synchronous
    MaxCalls = 1
    MaxBreaks = 0
    MaxInterrupts = 0
    Programs = {"runSerial"}
SPECIFICATION Spec
PROPERTIES
    CallReturns
    TerminationEndsServer
CHECK_DEADLOCK FALSE
