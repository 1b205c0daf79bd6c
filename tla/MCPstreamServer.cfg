CONSTANTS
    Conn = {"a"}
    KernelSize = 9
    RecvSize = 9
    Pieces = {1}
    Packets <- OddPackets
    Calls <- OddCalls
    ShutdownCall <- EmptyCall
    Answer <- OddAnswer
    Window <- Pipelining
    MaxCalls = 2
    MaxBreaks = 1
    MaxInterrupts = 1
    Programs = {"runSerial", "own"}
SPECIFICATION Spec
INVARIANTS
    TypeOK
    ResponsesMatchCalls
    OnlyRudeClientsEndServer
PROPERTY
    ImplementsPacketChannel
CHECK_DEADLOCK FALSE
